---- MODULE Spec2Model ----
(***************************************************************************)
(* Model of the router planner of multi_router_planner.c: the routability  *)
(* classifier, the modification validator, the expression reducibility     *)
(* analyzer, shard pruning / target resolution, placement resolution and   *)
(* the assembly of the Job and its Task.                                   *)
(*                                                                         *)
(* A planning call is synchronous; one action models one entry point as a  *)
(* whole (CreateRouterPlan, CreateModifyPlan) and leaves the plan, the     *)
(* mutated statement and the mutated restriction context in the state.     *)
(* A NULL pointer / NIL list is the empty sequence; a non-NULL pointer to  *)
(* a node is the one-element sequence holding the node.                    *)
(***************************************************************************)
EXTENDS Integers, Sequences, FiniteSets, TLC

VARIABLES
    EnableRouterExecution, \* the global flag (citus.enable_router_execution)
    isCoordinator,         \* what IsCoordinator() answers
    cache,                 \* DistributedTableCacheEntry(): relationId -> cache entry
    placements,            \* FinalizedShardPlacementList(): shardId -> placement list
    workerNodes,           \* ActivePrimaryNodeList()
    originalQuery,         \* the caller's statement (mutated in place on rewrite)
    restrictionContext,    \* restrictionContext->relationRestrictionList
    pc,                    \* "start" before the planning call, then "done"
    multiPlan,             \* the returned MultiPlan (NULL or <<plan>>)
    fatalError,            \* message of an ereport(ERROR) that aborted planning, or ""
    routerOut,             \* PlanRouterQuery's result and out-parameters, when it ran
    pruneLog,              \* relations handed to PruneShards / FindShardInterval
    placementLog,          \* shards handed to FinalizedShardPlacementList
    callResult             \* result of a directly applied function

vars == <<EnableRouterExecution, isCoordinator, cache, placements, workerNodes,
          originalQuery, restrictionContext, pc, multiPlan, fatalError,
          routerOut, pruneLog, placementLog, callResult>>

-----------------------------------------------------------------------------
(* Bounds of the model *)

\* largest partition-column value drawn for constants and shard boundaries
MaxValue == 3

\* largest number of base-relation table references of one statement
MaxRefs == 2

\* the most shards of a hash or range partitioned table of an INSERT
MaxShards == 3

-----------------------------------------------------------------------------
(* Constants of the program *)

INVALID_SHARD_ID == 0

NULL == <<>>
NIL == <<>>

CMD_SELECT == "SELECT"
CMD_INSERT == "INSERT"
CMD_UPDATE == "UPDATE"
CMD_DELETE == "DELETE"

DISTRIBUTE_BY_HASH == "h"
DISTRIBUTE_BY_RANGE == "r"
DISTRIBUTE_BY_APPEND == "a"
DISTRIBUTE_BY_NONE == "n"

RTE_RELATION == "RTE_RELATION"
RTE_SUBQUERY == "RTE_SUBQUERY"
RTE_JOIN == "RTE_JOIN"
RTE_FUNCTION == "RTE_FUNCTION"
RTE_VALUES == "RTE_VALUES"
RTE_CTE == "RTE_CTE"

RELKIND_RELATION == "r"
RELKIND_VIEW == "v"

ACL_SELECT == "ACL_SELECT"
ACL_INSERT == "ACL_INSERT"
ACL_UPDATE == "ACL_UPDATE"
ACL_DELETE == "ACL_DELETE"

ROUTER_TASK == "ROUTER_TASK"
MODIFY_TASK == "MODIFY_TASK"

PROVOLATILE_IMMUTABLE == "i"
PROVOLATILE_STABLE == "s"
PROVOLATILE_VOLATILE == "v"

DeferredError(message, detail, hint) ==
    <<[message |-> message, detail |-> detail, hint |-> hint]>>

\* Body applied to the value of e: a local variable assigned once
With(e, Body(_)) == CHOOSE v \in {Body(x) : x \in {e}} : TRUE

-----------------------------------------------------------------------------
(* Catalog lookups (external collaborators, read only) *)

DistributedTableCacheEntry(relationId) == cache[relationId]

PartitionMethod(relationId) == cache[relationId].partitionMethod

\* PartitionColumn(relationId, rangeTableId): NULL for a reference table, else
\* the Var of the partition column in range table entry rangeTableId
PartitionColumn(relationId, rangeTableId) ==
    IF cache[relationId].partitionMethod = DISTRIBUTE_BY_NONE
    THEN NULL
    ELSE <<[tag |-> "Var", varno |-> rangeTableId,
            varattno |-> cache[relationId].partitionAttno]>>

FinalizedShardPlacementList(shardId) == placements[shardId]

ActivePrimaryNodeList == workerNodes

\* no statement needs evaluation on the master
RequiresMasterEvaluation_Never(query) == FALSE

RequiresMasterEvaluation(query) == query.requiresMasterEvaluation

ShardContainsAll(shardInterval, restrictClauseList) ==
    \A i \in 1..Len(restrictClauseList) :
        /\ shardInterval.minValue <= restrictClauseList[i]
        /\ restrictClauseList[i] <= shardInterval.maxValue

\* PruneShards: the shards of the relation whose range can satisfy every clause;
\* a clause is an equality of the partition column with a constant.  A reference
\* table has no partition column and keeps its shards.
PruneShards(relationId, tableId, restrictClauseList) ==
    LET cacheEntry == DistributedTableCacheEntry(relationId)
    IN  IF cacheEntry.partitionMethod = DISTRIBUTE_BY_NONE
        THEN cacheEntry.sortedShardIntervalArray
        ELSE SelectSeq(cacheEntry.sortedShardIntervalArray,
                       LAMBDA s : ShardContainsAll(s, restrictClauseList))

\* ContainsFalseClause: some pseudo-constant clause is the constant false
ContainsFalseClause(pseudoRestrictionList) ==
    \E i \in 1..Len(pseudoRestrictionList) : pseudoRestrictionList[i] = FALSE

-----------------------------------------------------------------------------
(* Expression trees.  A node is a record with a tag:                        *)
(*   Var (varno, varattno), Const (constvalue, constisnull), Param,         *)
(*   FuncExpr / OpExpr (volatile, args; an OpExpr also has opno),           *)
(*   CoalesceExpr (args), CaseExpr (args), List (args).                     *)

IsFunctionNode(node) == node.tag \in {"FuncExpr", "OpExpr"}

HasChildren(node) ==
    node.tag \in {"FuncExpr", "OpExpr", "CoalesceExpr", "CaseExpr", "List"}

RECURSIVE contain_volatile_functions(_)
contain_volatile_functions(node) ==
    /\ HasChildren(node)
    /\ \/ IsFunctionNode(node) /\ node.volatile = PROVOLATILE_VOLATILE
       \/ \E i \in 1..Len(node.args) : contain_volatile_functions(node.args[i])

RECURSIVE contain_mutable_functions(_)
contain_mutable_functions(node) ==
    /\ HasChildren(node)
    /\ \/ IsFunctionNode(node) /\ node.volatile # PROVOLATILE_IMMUTABLE
       \/ \E i \in 1..Len(node.args) : contain_mutable_functions(node.args[i])

ListNode(args) == [tag |-> "List", args |-> args]

-----------------------------------------------------------------------------
(* The expression reducibility analyzer *)

\* a walker state that survives from the preceding call of the analyzer
NewWalkerState_Stale ==
    IF /\ callResult # <<>>
       /\ callResult[Len(callResult)].call = "MasterIrreducibleExpression"
    THEN callResult[Len(callResult)].returned.data
    ELSE [containsVar |-> FALSE, varArgument |-> FALSE, badCoalesce |-> FALSE]

NewWalkerState == [containsVar |-> FALSE, varArgument |-> FALSE, badCoalesce |-> FALSE]

\* check_functions_in_node with MasterIrreducibleExpressionFunctionChecker: the
\* volatility of the function of this node itself, 0 when it calls none
NodeVolatileFlag(node) == IF IsFunctionNode(node) THEN node.volatile ELSE "0"

\* the walker returns its boolean and the state as it leaves it;
\* expression_tree_walker visits the children in order and stops at the first
\* child for which the walker returns true
RECURSIVE MasterIrreducibleExpressionWalker(_, _)
RECURSIVE expression_tree_walker(_, _, _)
expression_tree_walker(args, i, state) ==
    IF i > Len(args) THEN [result |-> FALSE, state |-> state]
    ELSE With(MasterIrreducibleExpressionWalker(args[i], state), LAMBDA child :
             IF child.result THEN child
             ELSE expression_tree_walker(args, i + 1, child.state))

MasterIrreducibleExpressionWalker(expression, state) ==
    IF expression.tag = "CoalesceExpr"
    THEN IF contain_mutable_functions(ListNode(expression.args))
         THEN [result |-> TRUE, state |-> [state EXCEPT !.badCoalesce = TRUE]]
         ELSE [result |-> FALSE, state |-> state]
    ELSE IF expression.tag = "CaseExpr"
    THEN IF contain_mutable_functions(expression)
         THEN [result |-> TRUE, state |-> [state EXCEPT !.badCoalesce = TRUE]]
         ELSE [result |-> FALSE, state |-> state]
    ELSE IF expression.tag = "Var"
    THEN [result |-> FALSE, state |-> [state EXCEPT !.containsVar = TRUE]]
    ELSE IF ~HasChildren(expression)
    THEN [result |-> FALSE, state |-> state]
    ELSE IF NodeVolatileFlag(expression) = PROVOLATILE_STABLE
    THEN With(expression_tree_walker(expression.args, 1, NewWalkerState),
              LAMBDA walked :
                LET childState == walked.state
                    containsDisallowedFunction == walked.result
                IN  [result |-> containsDisallowedFunction \/ childState.containsVar,
                     state |-> [state EXCEPT
                                   !.varArgument = state.varArgument
                                                   \/ childState.containsVar
                                                   \/ childState.varArgument,
                                   !.badCoalesce = state.badCoalesce
                                                   \/ childState.badCoalesce]])
    ELSE expression_tree_walker(expression.args, 1, state)

\* an analyzer that does not hand its findings to the caller's flags
MasterIrreducibleExpression_NoMerge(expression, varArgument, badCoalesce) ==
    With(IF expression = NULL
         THEN [result |-> FALSE, state |-> NewWalkerState]
         ELSE MasterIrreducibleExpressionWalker(expression[1], NewWalkerState),
         LAMBDA walked :
           [result |-> walked.result,
            varArgument |-> varArgument,
            badCoalesce |-> badCoalesce,
            data |-> walked.state])

\* the result record: the returned boolean and the two flags after the call,
\* given the flags before it (the call ORs its findings into them), and the
\* local walker state as the call leaves it; a NULL expression is the empty
\* sequence
MasterIrreducibleExpression(expression, varArgument, badCoalesce) ==
    With(IF expression = NULL
         THEN [result |-> FALSE, state |-> NewWalkerState]
         ELSE MasterIrreducibleExpressionWalker(expression[1], NewWalkerState),
         LAMBDA walked :
           [result |-> walked.result,
            varArgument |-> varArgument \/ walked.state.varArgument,
            badCoalesce |-> badCoalesce \/ walked.state.badCoalesce,
            data |-> walked.state])

-----------------------------------------------------------------------------
(* The partition-value mutation guard *)

\* MakeOpExpression(column, BTEqualStrategyNumber) with the constant filled in
EqualityExpr(column, newValue) ==
    [tag |-> "OpExpr", opno |-> "=", volatile |-> PROVOLATILE_IMMUTABLE,
     args |-> <<column,
                [tag |-> "Const", constvalue |-> newValue.constvalue,
                 constisnull |-> newValue.constisnull]>>]

\* WhereClauseList: the conjuncts of the WHERE clause
WhereClauseList(joinTree) == joinTree.quals

\* predicate_implied_by for one equality predicate: some clause of the list is
\* the same equality (same column, same constant)
predicate_implied_by(predicate, restrictClauseList) ==
    \E i \in 1..Len(restrictClauseList) : restrictClauseList[i] = predicate

\* a guard that takes every constant for the value the column already has
TargetEntryChangesValue_AnyConstant(targetEntry, column, joinTree) ==
    /\ targetEntry.resno = column.varattno
    /\ targetEntry.expr.tag \notin {"Var", "Const"}

TargetEntryChangesValue(targetEntry, column, joinTree) ==
    LET setExpr == targetEntry.expr
    IN  IF targetEntry.resno # column.varattno THEN FALSE
        ELSE IF setExpr.tag = "Var"
        THEN ~(setExpr.varattno = column.varattno)
        ELSE IF setExpr.tag = "Const"
        THEN ~predicate_implied_by(EqualityExpr(column, setExpr),
                                   WhereClauseList(joinTree))
        ELSE TRUE

-----------------------------------------------------------------------------
(* Range table helpers *)

\* no statement taken for an UPDATE or DELETE
UpdateOrDeleteQuery_Never(query) == FALSE

UpdateOrDeleteQuery(query) ==
    query.commandType = CMD_UPDATE \/ query.commandType = CMD_DELETE

\* every range table entry taken for an UPDATE or DELETE target
UpdateOrDeleteRTE_Any(rangeTableEntry) == TRUE

UpdateOrDeleteRTE(rangeTableEntry) ==
    \/ ACL_UPDATE \in rangeTableEntry.requiredPerms
    \/ ACL_DELETE \in rangeTableEntry.requiredPerms

\* the first range table entry that is an UPDATE or DELETE target, else NULL
GetUpdateOrDeleteRTE(rangeTableList) ==
    LET hits == SelectSeq(rangeTableList, UpdateOrDeleteRTE)
    IN  IF hits = <<>> THEN NULL ELSE <<hits[1]>>

\* no range table taken to select from a distributed table
SelectsFromDistributedTable_Never(rangeTableList) == FALSE

SelectsFromDistributedTable(rangeTableList) ==
    \E i \in 1..Len(rangeTableList) :
        /\ rangeTableList[i].relid # 0
        /\ DistributedTableCacheEntry(rangeTableList[i].relid).partitionMethod
               # DISTRIBUTE_BY_NONE
        /\ ~UpdateOrDeleteRTE(rangeTableList[i])

\* UpdateRelationToShardNames: every base relation of the statement is made to
\* address its shard of the relation-to-shard mapping; a relation without a
\* mapping (all shards pruned) becomes a subquery that returns no rows
RewriteRTE(rte, relationShardList) ==
    LET hits == SelectSeq(relationShardList,
                          LAMBDA rs : rs.relationId = rte.relid)
    IN  IF rte.rtekind # RTE_RELATION THEN rte
        ELSE IF hits = <<>> THEN [rte EXCEPT !.rtekind = RTE_SUBQUERY]
        ELSE [rte EXCEPT !.shardId = hits[1].shardId]

UpdateRelationToShardNames(query, relationShardList) ==
    [query EXCEPT !.rtable =
        [i \in 1..Len(query.rtable) |-> RewriteRTE(query.rtable[i], relationShardList)]]

-----------------------------------------------------------------------------
(* The modification validator *)

IsDistributedTable(relid) == relid \in DOMAIN cache

\* the relation of the first range table entry that is a distributed table
ExtractFirstDistributedTableId(query) ==
    LET hits == SelectSeq(query.rtable, LAMBDA rte : IsDistributedTable(rte.relid))
    IN  IF hits = <<>> THEN 0 ELSE hits[1].relid

PlanningModificationsError(detail) ==
    DeferredError("cannot perform distributed planning for the given modifications",
                  detail, "")

PlanningModificationError(detail) ==
    DeferredError("cannot perform distributed planning for the given modification",
                  detail, "")

\* the body of the range table loop for one entry: the error it returns, or NULL
RangeTableEntryError(queryTree, multiShardQuery, rangeTableEntry) ==
    IF rangeTableEntry.rtekind = RTE_RELATION
    THEN IF /\ DistributedTableCacheEntry(rangeTableEntry.relid).partitionMethod
                   = DISTRIBUTE_BY_NONE
            /\ ~isCoordinator
         THEN PlanningModificationError(
                  "Modifications to reference tables are supported only from the coordinator.")
         ELSE IF rangeTableEntry.relkind = RELKIND_VIEW
         THEN DeferredError("cannot modify views over distributed tables", "", "")
         ELSE NULL
    ELSE IF rangeTableEntry.rtekind = RTE_VALUES THEN NULL
    ELSE IF UpdateOrDeleteQuery(queryTree) /\ ~multiShardQuery THEN NULL
    ELSE PlanningModificationsError(
             IF rangeTableEntry.rtekind = RTE_SUBQUERY
             THEN "Subqueries are not supported in distributed modifications."
             ELSE IF rangeTableEntry.rtekind = RTE_JOIN
             THEN "Joins are not supported in distributed modifications."
             ELSE IF rangeTableEntry.rtekind = RTE_FUNCTION
             THEN "Functions must not appear in the FROM clause of a distributed modifications."
             ELSE "Unrecognized range table entry.")

\* a range table loop that looks at the first entry only
RangeTableLoop_FirstEntry(queryTree, multiShardQuery, rangeTableList, i) ==
    IF rangeTableList = NIL THEN NULL
    ELSE RangeTableEntryError(queryTree, multiShardQuery, rangeTableList[1])

\* the range table loop: the error of the first entry that has one, or NULL
RECURSIVE RangeTableLoop(_, _, _, _)
RangeTableLoop(queryTree, multiShardQuery, rangeTableList, i) ==
    IF i > Len(rangeTableList) THEN NULL
    ELSE With(RangeTableEntryError(queryTree, multiShardQuery, rangeTableList[i]),
              LAMBDA error :
                IF error # NULL THEN error
                ELSE RangeTableLoop(queryTree, multiShardQuery, rangeTableList, i + 1))

\* the target list loop for UPDATE: state after the entries 1..i-1, with the
\* early return for a volatile function
RECURSIVE TargetListLoop(_, _, _, _)
TargetListLoop(queryTree, partitionColumn, i, acc) ==
    IF i > Len(queryTree.targetList) THEN acc
    ELSE
      LET targetEntry == queryTree.targetList[i]
          commandType == queryTree.commandType
          targetEntryPartitionColumn ==
              /\ partitionColumn # NULL
              /\ targetEntry.resno = partitionColumn[1].varattno
          changes ==
              /\ commandType = CMD_UPDATE
              /\ targetEntryPartitionColumn
              /\ TargetEntryChangesValue(targetEntry, partitionColumn[1],
                                         queryTree.jointree)
      IN  IF targetEntry.resjunk
          THEN TargetListLoop(queryTree, partitionColumn, i + 1, acc)
          ELSE IF commandType = CMD_UPDATE
                  /\ contain_volatile_functions(targetEntry.expr)
          THEN [acc EXCEPT !.error =
                   DeferredError("functions used in UPDATE queries on distributed tables must not be VOLATILE",
                                 "", "")]
          ELSE With(IF commandType = CMD_UPDATE
                    THEN MasterIrreducibleExpression(<<targetEntry.expr>>,
                             acc.hasVarArgument, acc.hasBadCoalesce)
                    ELSE [result |-> FALSE, varArgument |-> acc.hasVarArgument,
                          badCoalesce |-> acc.hasBadCoalesce],
                    LAMBDA irreducible :
                      TargetListLoop(queryTree, partitionColumn, i + 1,
                          [acc EXCEPT
                              !.specifiesPartitionValue =
                                  acc.specifiesPartitionValue \/ changes,
                              !.hasVarArgument = irreducible.varArgument,
                              !.hasBadCoalesce = irreducible.badCoalesce]))

\* an ON CONFLICT DO UPDATE SET loop that looks at no entry
OnConflictSetLoop_NoCheck(onConflictSet, partitionColumn, i, acc) == acc

\* the ON CONFLICT DO UPDATE SET loop
RECURSIVE OnConflictSetLoop(_, _, _, _)
OnConflictSetLoop(onConflictSet, partitionColumn, i, acc) ==
    IF i > Len(onConflictSet) THEN acc
    ELSE
      LET setTargetEntry == onConflictSet[i]
          setExpr == setTargetEntry.expr
          setTargetEntryPartitionColumn ==
              /\ partitionColumn # NULL
              /\ setTargetEntry.resno = partitionColumn[1].varattno
      IN  IF setTargetEntryPartitionColumn
          THEN OnConflictSetLoop(onConflictSet, partitionColumn, i + 1,
                   [acc EXCEPT !.specifiesPartitionValue =
                       ~(/\ setExpr.tag = "Var"
                         /\ setExpr.varattno = partitionColumn[1].varattno)])
          ELSE IF setExpr.tag = "Var"
          THEN OnConflictSetLoop(onConflictSet, partitionColumn, i + 1, acc)
          ELSE IF contain_mutable_functions(setExpr)
          THEN [acc EXCEPT !.error =
                   DeferredError("functions used in the DO UPDATE SET clause of INSERTs on distributed tables must be marked IMMUTABLE",
                                 "", "")]
          ELSE OnConflictSetLoop(onConflictSet, partitionColumn, i + 1, acc)

\* ModifyQuerySupported: NULL when the statement has only supported features,
\* else the error of the first rule that rejects it
ModifyQuerySupported(queryTree, multiShardQuery) ==
    LET distributedTableId == ExtractFirstDistributedTableId(queryTree)
        partitionColumn == PartitionColumn(distributedTableId, 1)
        commandType == queryTree.commandType
        isModification == commandType \in {CMD_INSERT, CMD_UPDATE, CMD_DELETE}
        rangeTableList == queryTree.rtable
        queryTableCount ==
            Cardinality({i \in 1..Len(rangeTableList) :
                            rangeTableList[i].rtekind = RTE_RELATION})
        hasValuesScan ==
            \E i \in 1..Len(rangeTableList) : rangeTableList[i].rtekind = RTE_VALUES
        joinTree == queryTree.jointree
        qualsExpr == IF joinTree.quals = NIL THEN NULL
                     ELSE <<ListNode(joinTree.quals)>>
        hasOnConflict == commandType = CMD_INSERT /\ queryTree.onConflict # NULL
        onConflictSet == IF hasOnConflict
                         THEN queryTree.onConflict[1].onConflictSet ELSE NIL
        arbiterWhere == IF hasOnConflict
                        THEN queryTree.onConflict[1].arbiterWhere ELSE NIL
        onConflictWhere == IF hasOnConflict
                           THEN queryTree.onConflict[1].onConflictWhere ELSE NIL
    IN  IF queryTree.hasSubLinks /\ (~UpdateOrDeleteQuery(queryTree) \/ multiShardQuery)
        THEN PlanningModificationsError(
                 "Subqueries are not supported in distributed modifications.")
        ELSE IF queryTree.cteList # NIL
        THEN DeferredError("common table expressions are not supported in distributed modifications",
                           "", "")
        ELSE With(RangeTableLoop(queryTree, multiShardQuery, rangeTableList, 1),
                  LAMBDA rangeTableError :
        IF rangeTableError # NULL THEN rangeTableError
        ELSE IF /\ commandType # CMD_INSERT
                /\ queryTableCount # 1
                /\ (~UpdateOrDeleteQuery(queryTree) \/ multiShardQuery)
        THEN PlanningModificationError(
                 "Joins are not supported in distributed modifications.")
        ELSE IF hasValuesScan
        THEN PlanningModificationError(
                 "Multi-row INSERTs to distributed tables are not supported.")
        ELSE With(TargetListLoop(queryTree, partitionColumn, 1,
                      [error |-> NULL, specifiesPartitionValue |-> FALSE,
                       hasVarArgument |-> FALSE, hasBadCoalesce |-> FALSE]),
                  LAMBDA targets :
        IF isModification /\ targets.error # NULL
        THEN targets.error
        ELSE IF isModification
                /\ contain_volatile_functions(ListNode(joinTree.quals))
        THEN DeferredError("functions used in the WHERE clause of modification queries on distributed tables must not be VOLATILE",
                           "", "")
        ELSE With(MasterIrreducibleExpression(qualsExpr, targets.hasVarArgument,
                                              targets.hasBadCoalesce),
                  LAMBDA qualsIrreducible :
        IF isModification /\ qualsIrreducible.varArgument
        THEN DeferredError("STABLE functions used in UPDATE queries cannot be called with column references",
                           "", "")
        ELSE IF isModification /\ qualsIrreducible.badCoalesce
        THEN DeferredError("non-IMMUTABLE functions are not allowed in CASE or COALESCE statements",
                           "", "")
        ELSE IF isModification
                /\ contain_mutable_functions(ListNode(queryTree.returningList))
        THEN DeferredError("non-IMMUTABLE functions are not allowed in the RETURNING clause",
                           "", "")
        ELSE With(OnConflictSetLoop(onConflictSet, partitionColumn, 1,
                      [error |-> NULL,
                       specifiesPartitionValue |-> targets.specifiesPartitionValue]),
                  LAMBDA conflict :
        IF conflict.error # NULL THEN conflict.error
        ELSE IF \/ contain_mutable_functions(ListNode(arbiterWhere))
                \/ contain_mutable_functions(ListNode(onConflictWhere))
        THEN DeferredError("functions used in the WHERE clause of the ON CONFLICT clause of INSERTs on distributed tables must be marked IMMUTABLE",
                           "", "")
        ELSE IF conflict.specifiesPartitionValue
        THEN DeferredError("modifying the partition value of rows is not allowed",
                           "", "")
        ELSE NULL))))

-----------------------------------------------------------------------------
(* Shard pruning for SELECT, UPDATE and DELETE *)

RECURSIVE TargetShardIntervalsLoop(_, _, _, _)
TargetShardIntervalsLoop(list, i, prunedRelationShardList, log) ==
    IF i > Len(list)
    THEN [multiShardQuery |-> FALSE,
          prunedRelationShardList |-> prunedRelationShardList,
          relationRestrictionList |-> list,
          pruneLog |-> log]
    ELSE
      LET relationRestriction == list[i]
          relationId == relationRestriction.relationId
          tableId == relationRestriction.index
          cacheEntry == DistributedTableCacheEntry(relationId)
          shardCount == Len(cacheEntry.sortedShardIntervalArray)
          whereFalseQuery ==
              ContainsFalseClause(relationRestriction.pseudoRestrictionList)
          prunes == ~whereFalseQuery /\ shardCount > 0
          log2 == IF prunes THEN Append(log, relationId) ELSE log
      IN  With(IF prunes
               THEN PruneShards(relationId, tableId,
                                relationRestriction.restrictClauseList)
               ELSE NIL,
               LAMBDA prunedShardList :
                 IF prunes /\ Len(prunedShardList) > 1
                 THEN [multiShardQuery |-> TRUE,
                       prunedRelationShardList |-> NIL,
                       relationRestrictionList |->
                           [list EXCEPT ![i].prunedShardIntervalList = NIL],
                       pruneLog |-> log2]
                 ELSE TargetShardIntervalsLoop(
                          [list EXCEPT ![i].prunedShardIntervalList = prunedShardList],
                          i + 1,
                          Append(prunedRelationShardList, prunedShardList),
                          log2))

\* pruning that never reports a multi-shard statement
TargetShardIntervalsForRouter_NoBailOut(query, relationRestrictionList) ==
    [TargetShardIntervalsLoop(relationRestrictionList, 1, NIL, <<>>)
        EXCEPT !.multiShardQuery = FALSE]

TargetShardIntervalsForRouter(query, relationRestrictionList) ==
    TargetShardIntervalsLoop(relationRestrictionList, 1, NIL, <<>>)

\* CompareRelationShards orders by relation id, then by shard id
RelationShardLess(a, b) ==
    \/ a.relationId < b.relationId
    \/ a.relationId = b.relationId /\ a.shardId < b.shardId

RECURSIVE SortList(_)
SortList(list) ==
    IF Len(list) <= 1 THEN list
    ELSE LET pivot == Head(list)
             rest == Tail(list)
         IN  SortList(SelectSeq(rest, LAMBDA x : RelationShardLess(x, pivot)))
             \o <<pivot>>
             \o SortList(SelectSeq(rest, LAMBDA x : ~RelationShardLess(x, pivot)))

\* a check that never finds two shards of one relation
RelationPrunesToMultipleShards_Never(relationShardList) == FALSE

RelationPrunesToMultipleShards(relationShardList) ==
    With(SortList(relationShardList), LAMBDA sorted :
        \E i \in 2..Len(sorted) :
            /\ sorted[i].relationId = sorted[i - 1].relationId
            /\ sorted[i].shardId # sorted[i - 1].shardId)

-----------------------------------------------------------------------------
(* Placement resolution *)

\* placements compared by port alone
PlacementMatches_PortOnly(lhsPlacement, rhsPlacement) ==
    rhsPlacement.nodePort = lhsPlacement.nodePort

PlacementMatches(lhsPlacement, rhsPlacement) ==
    /\ rhsPlacement.nodePort = lhsPlacement.nodePort
    /\ rhsPlacement.nodeName = lhsPlacement.nodeName

RECURSIVE IntersectPlacementList(_, _)
IntersectPlacementList(lhsPlacementList, rhsPlacementList) ==
    IF lhsPlacementList = NIL THEN NIL
    ELSE SelectSeq(rhsPlacementList,
                   LAMBDA r : PlacementMatches(Head(lhsPlacementList), r))
         \o IntersectPlacementList(Tail(lhsPlacementList), rhsPlacementList)

RECURSIVE WorkersLoop(_, _, _, _, _)
WorkersLoop(lists, i, firstShard, currentPlacementList, log) ==
    IF i > Len(lists)
    THEN [placementList |-> currentPlacementList, log |-> log]
    ELSE IF lists[i] = NIL
    THEN WorkersLoop(lists, i + 1, firstShard, currentPlacementList, log)
    ELSE
      LET shardId == lists[i][1].shardId
          newPlacementList == FinalizedShardPlacementList(shardId)
      IN  With(IF firstShard
               THEN newPlacementList
               ELSE IntersectPlacementList(currentPlacementList, newPlacementList),
               LAMBDA nextList :
                 IF nextList = NIL
                 THEN [placementList |-> nextList, log |-> Append(log, shardId)]
                 ELSE WorkersLoop(lists, i + 1, FALSE, nextList,
                                  Append(log, shardId)))

WorkersContainingAllShards(prunedShardIntervalsList) ==
    WorkersLoop(prunedShardIntervalsList, 1, TRUE, NIL, <<>>).placementList

\* the shards whose placements WorkersContainingAllShards looks up, in order
PlacementLookups(prunedShardIntervalsList) ==
    WorkersLoop(prunedShardIntervalsList, 1, TRUE, NIL, <<>>).log

-----------------------------------------------------------------------------
(* PlanRouterQuery: pruning, the relation-to-shard mapping, placements, rewrite *)

\* the loop over the pruned shard lists: shardsPresent, the anchor shard and the
\* relation-to-shard mappings appended to the caller's list
RECURSIVE RelationShardLoop(_, _, _, _, _)
RelationShardLoop(lists, i, shardsPresent, shardId, relationShardList) ==
    IF i > Len(lists)
    THEN [shardsPresent |-> shardsPresent, shardId |-> shardId,
          relationShardList |-> relationShardList]
    ELSE IF lists[i] = NIL
    THEN RelationShardLoop(lists, i + 1, shardsPresent, shardId, relationShardList)
    ELSE
      LET shardInterval == lists[i][1]
      IN  RelationShardLoop(
              lists, i + 1, TRUE,
              IF shardId = INVALID_SHARD_ID THEN shardInterval.shardId ELSE shardId,
              Append(relationShardList,
                     [relationId |-> shardInterval.relationId,
                      shardId |-> shardInterval.shardId]))

CommandName(commandType) ==
    IF commandType = CMD_UPDATE THEN "UPDATE"
    ELSE IF commandType = CMD_DELETE THEN "DELETE"
    ELSE "SELECT"

MultiShardError(query) ==
    DeferredError(
        "cannot run " \o CommandName(query.commandType)
            \o " command which targets multiple shards",
        "",
        IF query.commandType = CMD_UPDATE \/ query.commandType = CMD_DELETE
        THEN "Consider using an equality filter on partition column"
        ELSE "")

\* no placeholder placement at all
DummyPlacementList_None == NIL

\* the placeholder placement list: the first active worker, if there is one
DummyPlacementList ==
    LET workerNodeList == ActivePrimaryNodeList
    IN  IF workerNodeList # NIL
        THEN <<[shardId |-> INVALID_SHARD_ID,
                nodeName |-> workerNodeList[1].workerName,
                nodePort |-> workerNodeList[1].workerPort,
                groupId |-> workerNodeList[1].groupId]>>
        ELSE NIL

\* the result record carries the returned error, the out-parameters as the
\* caller finds them (it passes NIL lists and INVALID_SHARD_ID), the statement
\* and the restriction list as the call leaves them, and the lookups made
PlanRouterQuery(query, relationRestrictionList, replacePrunedQueryWithDummy) ==
    With(TargetShardIntervalsForRouter(query, relationRestrictionList),
         LAMBDA target :
    LET prunedRelationShardList == target.prunedRelationShardList
        base == [planningError |-> NULL,
                 placementList |-> NIL,
                 anchorShardId |-> INVALID_SHARD_ID,
                 relationShardList |-> NIL,
                 originalQuery |-> query,
                 relationRestrictionList |-> target.relationRestrictionList,
                 pruneLog |-> target.pruneLog,
                 placementLog |-> <<>>]
    IN  IF target.multiShardQuery
        THEN [base EXCEPT !.planningError = MultiShardError(query)]
        ELSE With(RelationShardLoop(prunedRelationShardList, 1, FALSE,
                                    INVALID_SHARD_ID, NIL),
                  LAMBDA loop :
        IF RelationPrunesToMultipleShards(loop.relationShardList)
        THEN [base EXCEPT
                !.planningError =
                    DeferredError("cannot run command which targets multiple shards",
                                  "", ""),
                !.relationShardList = loop.relationShardList]
        ELSE IF ~loop.shardsPresent /\ ~replacePrunedQueryWithDummy
        THEN [base EXCEPT !.relationShardList = loop.relationShardList]
        ELSE With(IF loop.shardsPresent
                  THEN [workerList |->
                            WorkersContainingAllShards(prunedRelationShardList),
                        lookups |-> PlacementLookups(prunedRelationShardList)]
                  ELSE [workerList |-> DummyPlacementList, lookups |-> <<>>],
                  LAMBDA found :
        IF found.workerList = NIL
        THEN [base EXCEPT
                !.planningError =
                    DeferredError("found no worker with all shard placements",
                                  "", ""),
                !.relationShardList = loop.relationShardList,
                !.placementLog = found.lookups]
        ELSE [base EXCEPT
                !.relationShardList = loop.relationShardList,
                !.placementLog = found.lookups,
                !.originalQuery =
                    IF ~(UpdateOrDeleteQuery(query) /\ RequiresMasterEvaluation(query))
                    THEN UpdateRelationToShardNames(query, loop.relationShardList)
                    ELSE query,
                !.placementList = found.workerList,
                !.anchorShardId = loop.shardId])))

-----------------------------------------------------------------------------
(* Job and Task assembly for SELECT, UPDATE and DELETE *)

CreateJob(query) ==
    [taskList |-> NIL, requiresMasterEvaluation |-> FALSE, deferredPruning |-> FALSE]

\* a task that names the first active worker from the start
CreateTask_Placed(taskType) ==
    [taskType |-> taskType,
     anchorShardId |-> INVALID_SHARD_ID,
     taskPlacementList |-> DummyPlacementList,
     relationShardList |-> NIL,
     upsertQuery |-> FALSE,
     replicationModel |-> "REPLICATION_MODEL_INVALID"]

CreateTask(taskType) ==
    [taskType |-> taskType,
     anchorShardId |-> INVALID_SHARD_ID,
     taskPlacementList |-> NIL,
     relationShardList |-> NIL,
     upsertQuery |-> FALSE,
     replicationModel |-> "REPLICATION_MODEL_INVALID"]

\* no UPDATE or DELETE taken for pruned away
UpdateOrDeletePruned_Never(updateOrDeleteRTE) == FALSE

\* the UPDATE or DELETE target was rewritten into a subquery that returns no
\* rows, which is what the rewrite makes of a relation left without a shard
UpdateOrDeletePruned(updateOrDeleteRTE) ==
    /\ updateOrDeleteRTE # NULL
    /\ updateOrDeleteRTE[1].rtekind = RTE_SUBQUERY

\* the result record: the Job (NULL or <<job>>), *planningError, the message of
\* an ereport(ERROR) or "", and what PlanRouterQuery did
RouterJob(query, relationRestrictionList) ==
    With(PlanRouterQuery(query, relationRestrictionList, TRUE), LAMBDA planned :
    LET requiresMasterEvaluation == RequiresMasterEvaluation(query)
        rangeTableList == planned.originalQuery.rtable
        updateOrDeleteRTE == GetUpdateOrDeleteRTE(rangeTableList)
        job == CreateJob(planned.originalQuery)
        modificationTableCacheEntry ==
            DistributedTableCacheEntry(updateOrDeleteRTE[1].relid)
        task ==
            IF planned.originalQuery.commandType = CMD_SELECT
            THEN CreateTask(ROUTER_TASK)
            ELSE [CreateTask(MODIFY_TASK) EXCEPT
                     !.replicationModel =
                         modificationTableCacheEntry.replicationModel]
        filled == [task EXCEPT
                     !.anchorShardId = planned.anchorShardId,
                     !.taskPlacementList = planned.placementList,
                     !.relationShardList = planned.relationShardList]
    IN  IF planned.planningError # NULL
        THEN [job |-> NULL, planningError |-> planned.planningError,
              fatalError |-> "", planned |-> planned]
        ELSE IF UpdateOrDeletePruned(updateOrDeleteRTE)
        THEN [job |-> <<job>>, planningError |-> NULL,
              fatalError |-> "", planned |-> planned]
        ELSE IF /\ planned.originalQuery.commandType # CMD_SELECT
                /\ modificationTableCacheEntry.partitionMethod = DISTRIBUTE_BY_NONE
                /\ SelectsFromDistributedTable(rangeTableList)
        THEN [job |-> NULL, planningError |-> NULL,
              fatalError |-> "cannot perform select on a distributed table and modify a reference table",
              planned |-> planned]
        ELSE [job |-> <<[job EXCEPT
                            !.taskList = <<filled>>,
                            !.requiresMasterEvaluation = requiresMasterEvaluation]>>,
              planningError |-> NULL, fatalError |-> "", planned |-> planned])

-----------------------------------------------------------------------------
(* The INSERT path *)

\* get_tle_by_resno: the first target entry with the given resno, else NULL
get_tle_by_resno(targetList, resno) ==
    LET hits == SelectSeq(targetList, LAMBDA tle : tle.resno = resno)
    IN  IF hits = <<>> THEN NULL ELSE <<hits[1]>>

\* the constant 0 taken for the partition value of every INSERT
ExtractInsertPartitionValue_Zero(query, partitionColumn) ==
    [expr |-> <<[tag |-> "Const", constvalue |-> 0, constisnull |-> FALSE]>>,
     fatalError |-> ""]

\* the result record: the expression (NULL when the call aborted) and the
\* message of the ereport(ERROR) or ""
ExtractInsertPartitionValue(query, partitionColumn) ==
    LET targetEntry == get_tle_by_resno(query.targetList, partitionColumn.varattno)
    IN  IF targetEntry = NULL
        THEN [expr |-> NULL,
              fatalError |-> "cannot perform an INSERT without a partition column value"]
        ELSE [expr |-> <<targetEntry[1].expr>>, fatalError |-> ""]

\* every statement taken as ready for pruning
CanShardPrune_Always(distributedTableId, query) ==
    [result |-> TRUE, fatalError |-> ""]

\* the result record: the returned boolean and the ereport(ERROR) message or ""
CanShardPrune(distributedTableId, query) ==
    LET partitionColumn == PartitionColumn(distributedTableId, 1)
        partitionValue == ExtractInsertPartitionValue(query, partitionColumn[1])
    IN  IF query.commandType # CMD_INSERT
        THEN [result |-> TRUE, fatalError |-> ""]
        ELSE IF partitionColumn = NULL
        THEN [result |-> TRUE, fatalError |-> ""]
        ELSE IF partitionValue.fatalError # ""
        THEN [result |-> FALSE, fatalError |-> partitionValue.fatalError]
        ELSE [result |-> partitionValue.expr[1].tag = "Const", fatalError |-> ""]

\* no table taken for one without shards
ErrorIfNoShardsExist_Never(cacheEntry) == ""

\* "could not find any shards" when the table has none, else ""
ErrorIfNoShardsExist(cacheEntry) ==
    IF Len(cacheEntry.sortedShardIntervalArray) = 0
    THEN "could not find any shards"
    ELSE ""

\* FindShardInterval: boundary search over the sorted shard interval array for
\* the interval that contains the value; NULL when none does
RECURSIVE SearchCachedShardInterval(_, _, _, _)
SearchCachedShardInterval(partitionValue, array, lowerBoundIndex, upperBoundIndex) ==
    IF lowerBoundIndex >= upperBoundIndex THEN NULL
    ELSE LET middleIndex == (lowerBoundIndex + upperBoundIndex) \div 2
             middle == array[middleIndex + 1]
         IN  IF partitionValue < middle.minValue
             THEN SearchCachedShardInterval(partitionValue, array,
                                            lowerBoundIndex, middleIndex)
             ELSE IF partitionValue <= middle.maxValue
             THEN <<middle>>
             ELSE SearchCachedShardInterval(partitionValue, array,
                                            middleIndex + 1, upperBoundIndex)

FindShardInterval(partitionValue, cacheEntry) ==
    SearchCachedShardInterval(partitionValue, cacheEntry.sortedShardIntervalArray,
                              0, Len(cacheEntry.sortedShardIntervalArray))

\* ColumnNameToColumn: the name of the partition column; the model's tables
\* name their columns after the attribute number
ColumnNameToColumn(distributedTableId, partitionKeyString) ==
    IF partitionKeyString = 1 THEN "key" ELSE "value"

\* one message and one hint for every shard count
InsertShardCountError_Generic(prunedShardCount, partitionColumnName) ==
    DeferredError("cannot run INSERT command", "", "")

InsertShardCountError(prunedShardCount, partitionColumnName) ==
    DeferredError(
        "cannot run INSERT command which targets "
            \o (IF prunedShardCount = 0 THEN "no" ELSE "multiple") \o " shards",
        "",
        IF prunedShardCount = 0
        THEN "Make sure you have created a shard which can receive this partition column value."
        ELSE "Make sure the value for partition column \"" \o partitionColumnName
                 \o "\" falls into a single shard.")

\* every failure to find the shard raised as an ereport(ERROR)
FindShardForInsert_Abort(query, cacheEntry) ==
    [shardInterval |-> NULL, planningError |-> NULL,
     fatalError |-> "cannot run INSERT command which targets multiple shards",
     pruneLog |-> <<>>]

\* the first shard of the table, whatever the value
FindShardForInsert_FirstShard(query, cacheEntry) ==
    [shardInterval |-> <<cacheEntry.sortedShardIntervalArray[1]>>,
     planningError |-> NULL, fatalError |-> "", pruneLog |-> <<>>]

\* the result record: the returned shard interval (NULL or <<interval>>),
\* *planningError, the ereport(ERROR) message or "", and the pruning lookups
FindShardForInsert(query, cacheEntry) ==
    LET distributedTableId == cacheEntry.relationId
        partitionMethod == cacheEntry.partitionMethod
        shardCount == Len(cacheEntry.sortedShardIntervalArray)
        partitionColumn == PartitionColumn(distributedTableId, 1)
        partitionValue == ExtractInsertPartitionValue(query, partitionColumn[1])
        partitionValueConst == partitionValue.expr[1]
        prunedShardList ==
            IF partitionMethod \in {DISTRIBUTE_BY_HASH, DISTRIBUTE_BY_RANGE}
            THEN FindShardInterval(partitionValueConst.constvalue, cacheEntry)
            ELSE PruneShards(distributedTableId, 1,
                             <<partitionValueConst.constvalue>>)
        prunedShardCount == Len(prunedShardList)
        none == [shardInterval |-> NULL, planningError |-> NULL,
                 fatalError |-> "", pruneLog |-> <<>>]
    IN  IF partitionMethod = DISTRIBUTE_BY_NONE
        THEN IF shardCount # 1
             THEN [none EXCEPT !.fatalError =
                      "reference table cannot have " \o ToString(shardCount) \o " shards"]
             ELSE [none EXCEPT !.shardInterval =
                                   <<cacheEntry.sortedShardIntervalArray[1]>>]
        ELSE IF partitionValue.fatalError # ""
        THEN [none EXCEPT !.fatalError = partitionValue.fatalError]
        ELSE IF partitionValueConst.tag # "Const"
        THEN [none EXCEPT !.fatalError =
                 "cannot perform an INSERT with a non-constant in the partition column"]
        ELSE IF partitionValueConst.constisnull
        THEN [none EXCEPT !.fatalError =
                 "cannot perform an INSERT with NULL in the partition column"]
        ELSE IF prunedShardCount # 1
        THEN [none EXCEPT !.planningError =
                              InsertShardCountError(
                                  prunedShardCount,
                                  ColumnNameToColumn(distributedTableId,
                                                     cacheEntry.partitionAttno)),
                          !.pruneLog = <<distributedTableId>>]
        ELSE [none EXCEPT !.shardInterval = <<prunedShardList[1]>>,
                          !.pruneLog = <<distributedTableId>>]

\* one task for every shard of the table
RouterInsertTaskList_TaskPerShard(query) ==
    LET cacheEntry == DistributedTableCacheEntry(ExtractFirstDistributedTableId(query))
    IN  [taskList |->
             [k \in DOMAIN cacheEntry.sortedShardIntervalArray |->
                 [CreateTask(MODIFY_TASK) EXCEPT
                     !.anchorShardId = cacheEntry.sortedShardIntervalArray[k].shardId]],
         planningError |-> NULL, fatalError |-> "", pruneLog |-> <<>>]

\* the result record: the task list, *planningError, the ereport(ERROR)
\* message or "", and the pruning lookups
RouterInsertTaskList(query) ==
    LET distributedTableId == ExtractFirstDistributedTableId(query)
        cacheEntry == DistributedTableCacheEntry(distributedTableId)
    IN  IF ErrorIfNoShardsExist(cacheEntry) # ""
        THEN [taskList |-> NIL, planningError |-> NULL,
              fatalError |-> ErrorIfNoShardsExist(cacheEntry), pruneLog |-> <<>>]
        ELSE With(FindShardForInsert(query, cacheEntry), LAMBDA found :
        LET modifyTask == [CreateTask(MODIFY_TASK) EXCEPT
                              !.anchorShardId = found.shardInterval[1].shardId,
                              !.replicationModel = cacheEntry.replicationModel,
                              !.upsertQuery = (query.onConflict # NULL)]
        IN  IF found.fatalError # "" \/ found.planningError # NULL
            THEN [taskList |-> NIL, planningError |-> found.planningError,
                  fatalError |-> found.fatalError, pruneLog |-> found.pruneLog]
            ELSE [taskList |-> <<modifyTask>>, planningError |-> NULL,
                  fatalError |-> "", pruneLog |-> found.pruneLog])

\* the result record: the Job (NULL or <<job>>), *planningError, the
\* ereport(ERROR) message or "", and the pruning lookups
RouterInsertJob(query) ==
    LET distributedTableId == ExtractFirstDistributedTableId(query)
        job == CreateJob(query)
    IN  With(CanShardPrune(distributedTableId, query), LAMBDA canPrune :
        IF canPrune.fatalError # ""
        THEN [job |-> NULL, planningError |-> NULL,
              fatalError |-> canPrune.fatalError, pruneLog |-> <<>>]
        ELSE IF ~canPrune.result
        THEN [job |-> <<[job EXCEPT !.taskList = NIL,
                                    !.requiresMasterEvaluation = TRUE,
                                    !.deferredPruning = TRUE]>>,
              planningError |-> NULL, fatalError |-> "", pruneLog |-> <<>>]
        ELSE With(RouterInsertTaskList(query), LAMBDA tasks :
        IF tasks.fatalError # "" \/ tasks.planningError # NULL
        THEN [job |-> NULL, planningError |-> tasks.planningError,
              fatalError |-> tasks.fatalError, pruneLog |-> tasks.pruneLog]
        ELSE [job |-> <<[job EXCEPT
                            !.taskList = tasks.taskList,
                            !.requiresMasterEvaluation = RequiresMasterEvaluation(query),
                            !.deferredPruning = FALSE]>>,
              planningError |-> NULL, fatalError |-> "", pruneLog |-> tasks.pruneLog]))

-----------------------------------------------------------------------------
(* The routability classifier and the SELECT entry point *)

\* a classifier that takes only hash partitioned tables for routable
MultiRouterPlannableQuery_HashOnly(query, relationRestrictionList) ==
    IF query.commandType \in {CMD_INSERT, CMD_UPDATE, CMD_DELETE} THEN TRUE
    ELSE IF ~EnableRouterExecution THEN FALSE
    ELSE IF query.hasForUpdate THEN FALSE
    ELSE \A i \in 1..Len(relationRestrictionList) :
            relationRestrictionList[i].rte.rtekind = RTE_RELATION =>
                PartitionMethod(relationRestrictionList[i].rte.relid)
                    = DISTRIBUTE_BY_HASH

MultiRouterPlannableQuery(query, relationRestrictionList) ==
    IF query.commandType \in {CMD_INSERT, CMD_UPDATE, CMD_DELETE} THEN TRUE
    ELSE IF ~EnableRouterExecution THEN FALSE
    ELSE IF query.hasForUpdate THEN FALSE
    ELSE \A i \in 1..Len(relationRestrictionList) :
            relationRestrictionList[i].rte.rtekind = RTE_RELATION =>
                PartitionMethod(relationRestrictionList[i].rte.relid) \in
                    {DISTRIBUTE_BY_HASH, DISTRIBUTE_BY_NONE, DISTRIBUTE_BY_RANGE}

ErrorIfQueryHasModifyingCTE(queryTree) ==
    IF \E i \in 1..Len(queryTree.cteList) : queryTree.cteList[i] # CMD_SELECT
    THEN DeferredError("data-modifying statements are not supported in the WITH clauses of distributed queries",
                       "", "")
    ELSE NULL

\* a plan that carries a Job from the start
NewMultiPlan_WithJob(query) ==
    [operation |-> query.commandType,
     planningError |-> NULL,
     workerJob |-> <<CreateJob(query)>>,
     routerExecutable |-> FALSE,
     hasReturning |-> FALSE]

NewMultiPlan(query) ==
    [operation |-> query.commandType,
     planningError |-> NULL,
     workerJob |-> NULL,
     routerExecutable |-> FALSE,
     hasReturning |-> FALSE]

\* the result record: the returned plan (NULL or <<plan>>), the ereport(ERROR)
\* message or "", and RouterJob's record when RouterJob ran (else NULL)
CreateSingleTaskRouterPlan(query, relationRestrictionList) ==
    LET plan == NewMultiPlan(query)
        cteError == ErrorIfQueryHasModifyingCTE(query)
    IN  IF cteError # NULL
        THEN [multiPlan |-> <<[plan EXCEPT !.planningError = cteError]>>,
              fatalError |-> "", routed |-> NULL, insertLog |-> <<>>]
        ELSE With(RouterJob(query, relationRestrictionList), LAMBDA routed :
        IF routed.fatalError # ""
        THEN [multiPlan |-> NULL, fatalError |-> routed.fatalError,
              routed |-> <<routed>>, insertLog |-> <<>>]
        ELSE IF routed.planningError # NULL
        THEN [multiPlan |-> NULL, fatalError |-> "", routed |-> <<routed>>,
              insertLog |-> <<>>]
        ELSE [multiPlan |-> <<[plan EXCEPT !.workerJob = routed.job,
                                           !.routerExecutable = TRUE]>>,
              fatalError |-> "", routed |-> <<routed>>, insertLog |-> <<>>])

\* what PlanRouterQuery left behind, as the routerOut variable records it
RouterOutOf(routed) ==
    IF routed = NULL
    THEN [ran |-> FALSE, planningError |-> NULL, placementList |-> NIL,
          anchorShardId |-> INVALID_SHARD_ID, relationShardList |-> NIL]
    ELSE [ran |-> TRUE,
          planningError |-> routed[1].planned.planningError,
          placementList |-> routed[1].planned.placementList,
          anchorShardId |-> routed[1].planned.anchorShardId,
          relationShardList |-> routed[1].planned.relationShardList]

\* the state a planning call leaves: the returned plan or fatal error, the
\* out-parameters of PlanRouterQuery, the statement and restriction context as
\* mutated in place, and the lookups made
Returned(made) ==
    /\ multiPlan' = made.multiPlan
    /\ fatalError' = made.fatalError
    /\ routerOut' = RouterOutOf(made.routed)
    /\ originalQuery' = IF made.routed = NULL THEN originalQuery
                        ELSE made.routed[1].planned.originalQuery
    /\ restrictionContext' =
           IF made.routed = NULL THEN restrictionContext
           ELSE made.routed[1].planned.relationRestrictionList
    /\ pruneLog' = IF made.routed = NULL THEN pruneLog \o made.insertLog
                   ELSE pruneLog \o made.routed[1].planned.pruneLog
    /\ placementLog' = IF made.routed = NULL THEN placementLog
                       ELSE placementLog \o made.routed[1].planned.placementLog

CreateRouterPlan ==
    /\ pc = "start"
    /\ originalQuery.commandType = CMD_SELECT
    /\ EnableRouterExecution
    /\ \E made \in {IF MultiRouterPlannableQuery(originalQuery, restrictionContext)
                    THEN CreateSingleTaskRouterPlan(originalQuery, restrictionContext)
                    ELSE [multiPlan |-> NULL, fatalError |-> "", routed |-> NULL,
                          insertLog |-> <<>>]} :
           Returned(made)
    /\ pc' = "done"
    /\ UNCHANGED <<EnableRouterExecution, isCoordinator, cache, placements,
                   workerNodes, callResult>>

-----------------------------------------------------------------------------
(* The entry point for INSERT, UPDATE and DELETE *)

\* planning that prunes before it looks at the validator's verdict
CreateModifyPlanResult_PruneFirst(query, relationRestrictionList) ==
    IF ~UpdateOrDeleteQuery(query)
    THEN [multiPlan |-> <<[NewMultiPlan(query) EXCEPT
                              !.planningError = ModifyQuerySupported(query, FALSE)]>>,
          fatalError |-> "", routed |-> NULL, insertLog |-> <<>>]
    ELSE With(RouterJob(query, relationRestrictionList), LAMBDA routed :
             [multiPlan |-> <<[NewMultiPlan(query) EXCEPT
                                  !.planningError =
                                      IF ModifyQuerySupported(query, FALSE) # NULL
                                      THEN ModifyQuerySupported(query, FALSE)
                                      ELSE routed.planningError]>>,
              fatalError |-> "", routed |-> <<routed>>, insertLog |-> <<>>])

\* the result record of the whole call: the returned plan (NULL when an
\* ereport(ERROR) aborted it), the ereport(ERROR) message or "", RouterJob's
\* record when it ran (else NULL) and the INSERT path's pruning lookups
CreateModifyPlanResult(query, relationRestrictionList) ==
    LET multiShardQuery == FALSE
        plan == NewMultiPlan(query)
    IN  With(ModifyQuerySupported(query, multiShardQuery), LAMBDA validatorError :
        IF validatorError # NULL
        THEN [multiPlan |-> <<[plan EXCEPT !.planningError = validatorError]>>,
              fatalError |-> "", routed |-> NULL, insertLog |-> <<>>]
        ELSE With(IF UpdateOrDeleteQuery(query)
                  THEN With(RouterJob(query, relationRestrictionList),
                            LAMBDA routed :
                              [job |-> routed.job,
                               planningError |-> routed.planningError,
                               fatalError |-> routed.fatalError,
                               routed |-> <<routed>>, insertLog |-> <<>>])
                  ELSE With(RouterInsertJob(query),
                            LAMBDA inserted :
                              [job |-> inserted.job,
                               planningError |-> inserted.planningError,
                               fatalError |-> inserted.fatalError,
                               routed |-> NULL, insertLog |-> inserted.pruneLog]),
                  LAMBDA jobbed :
        IF jobbed.fatalError # ""
        THEN [multiPlan |-> NULL, fatalError |-> jobbed.fatalError,
              routed |-> jobbed.routed, insertLog |-> jobbed.insertLog]
        ELSE IF jobbed.planningError # NULL
        THEN [multiPlan |-> <<[plan EXCEPT !.planningError = jobbed.planningError]>>,
              fatalError |-> "", routed |-> jobbed.routed,
              insertLog |-> jobbed.insertLog]
        ELSE [multiPlan |-> <<[plan EXCEPT
                                  !.workerJob = jobbed.job,
                                  !.routerExecutable = TRUE,
                                  !.hasReturning = (Len(query.returningList) > 0)]>>,
              fatalError |-> "", routed |-> jobbed.routed,
              insertLog |-> jobbed.insertLog]))

CreateModifyPlan ==
    /\ pc = "start"
    /\ originalQuery.commandType \in {CMD_INSERT, CMD_UPDATE, CMD_DELETE}
    /\ \E made \in {CreateModifyPlanResult(originalQuery, restrictionContext)} :
           Returned(made)
    /\ pc' = "done"
    /\ UNCHANGED <<EnableRouterExecution, isCoordinator, cache, placements,
                   workerNodes, callResult>>


-----------------------------------------------------------------------------
(* Catalogs and statements the planning calls start from *)

Shard(relationId, shardId, minValue, maxValue) ==
    [relationId |-> relationId, shardId |-> shardId,
     minValue |-> minValue, maxValue |-> maxValue]

Table(relationId, partitionMethod, partitionAttno, shards) ==
    [relationId |-> relationId, partitionMethod |-> partitionMethod,
     partitionAttno |-> partitionAttno, sortedShardIntervalArray |-> shards,
     replicationModel |-> IF partitionMethod = DISTRIBUTE_BY_NONE THEN "t" ELSE "c"]

\* relation 1 is hash partitioned, 2 range partitioned with no shard for the
\* value 1, 3 a reference table, 4 append partitioned with overlapping shards
RouterCache ==
    <<Table(1, DISTRIBUTE_BY_HASH, 1, <<Shard(1, 11, 0, 1), Shard(1, 12, 2, MaxValue)>>),
      Table(2, DISTRIBUTE_BY_RANGE, 1, <<Shard(2, 21, 0, 0), Shard(2, 22, 2, 3)>>),
      Table(3, DISTRIBUTE_BY_NONE, 0, <<Shard(3, 31, 0, 0)>>),
      Table(4, DISTRIBUTE_BY_APPEND, 1, <<Shard(4, 41, 0, 2), Shard(4, 42, 1, 3)>>)>>

Placement(shardId, nodeName, nodePort) ==
    [shardId |-> shardId, nodeName |-> nodeName, nodePort |-> nodePort,
     groupId |-> IF nodeName = "w1" THEN nodePort - 5431 ELSE nodePort - 5421]

Worker(workerName, workerPort) ==
    [workerName |-> workerName, workerPort |-> workerPort,
     groupId |-> IF workerName = "w1" THEN workerPort - 5431 ELSE workerPort - 5421]

RouterShardIds == {11, 12, 21, 22, 31, 41, 42}

\* every shard on the same two workers
ColocatedPlacements ==
    [s \in RouterShardIds |-> <<Placement(s, "w1", 5432), Placement(s, "w2", 5432)>>]

\* shards spread over workers that share a name or a port, but not both
SpreadPlacements ==
    [s \in RouterShardIds |->
        CASE s = 11 -> <<Placement(s, "w1", 5432)>>
          [] s = 12 -> <<Placement(s, "w2", 5432), Placement(s, "w1", 5433)>>
          [] s = 21 -> <<Placement(s, "w2", 5432), Placement(s, "w1", 5432)>>
          [] s = 22 -> <<Placement(s, "w1", 5433)>>
          [] s = 31 -> <<Placement(s, "w1", 5432), Placement(s, "w1", 5433),
                         Placement(s, "w2", 5432)>>
          [] s = 41 -> <<Placement(s, "w2", 5433)>>
          [] OTHER -> <<>>]

PlacementCatalogs == {ColocatedPlacements, SpreadPlacements}

WorkerLists == {<<>>, <<Worker("w2", 5432), Worker("w1", 5432)>>}

\* the filters of one table reference: equalities of the partition column with
\* constants, and the pseudo-constant clauses of its join info
RestrictionShapes ==
    {[restrictClauseList |-> <<>>, pseudoRestrictionList |-> <<>>],
     [restrictClauseList |-> <<0>>, pseudoRestrictionList |-> <<>>],
     [restrictClauseList |-> <<1>>, pseudoRestrictionList |-> <<>>],
     [restrictClauseList |-> <<2>>, pseudoRestrictionList |-> <<>>],
     [restrictClauseList |-> <<0, 2>>, pseudoRestrictionList |-> <<>>],
     [restrictClauseList |-> <<>>, pseudoRestrictionList |-> <<FALSE>>]}

TableRefs == {[relid |-> r, shape |-> k] : r \in DOMAIN RouterCache, k \in RestrictionShapes}

TableRefLists == UNION {[1..n -> TableRefs] : n \in 1..MaxRefs}

\* the range table entry of table reference i of a statement
RangeTableEntry(commandType, relid, i) ==
    [rtekind |-> RTE_RELATION, relid |-> relid, relkind |-> RELKIND_RELATION,
     requiredPerms |->
         IF i = 1 /\ commandType = CMD_UPDATE THEN {ACL_SELECT, ACL_UPDATE}
         ELSE IF i = 1 /\ commandType = CMD_DELETE THEN {ACL_SELECT, ACL_DELETE}
         ELSE IF i = 1 /\ commandType = CMD_INSERT THEN {ACL_INSERT}
         ELSE {ACL_SELECT},
     shardId |-> INVALID_SHARD_ID]

RelationRestrictions(commandType, refs) ==
    [i \in 1..Len(refs) |->
        [relationId |-> refs[i].relid,
         index |-> i,
         rte |-> RangeTableEntry(commandType, refs[i].relid, i),
         restrictClauseList |-> refs[i].shape.restrictClauseList,
         pseudoRestrictionList |-> refs[i].shape.pseudoRestrictionList,
         prunedShardIntervalList |-> NIL]]

ConstExpr(value) == [tag |-> "Const", constvalue |-> value, constisnull |-> FALSE]

NullConst == [tag |-> "Const", constvalue |-> 0, constisnull |-> TRUE]

VarExpr(varno, varattno) == [tag |-> "Var", varno |-> varno, varattno |-> varattno]

ParamExpr == [tag |-> "Param"]

FuncExpr(volatile, args) == [tag |-> "FuncExpr", volatile |-> volatile, args |-> args]

TargetEntry(resno, expr) == [resno |-> resno, resjunk |-> FALSE, expr |-> expr]

\* a statement over the given table references with no sub-select, CTE,
\* RETURNING list or ON CONFLICT clause
PlainQuery(commandType, refs, targetList, quals, requiresMasterEvaluation) ==
    [commandType |-> commandType,
     hasForUpdate |-> FALSE,
     hasSubLinks |-> FALSE,
     cteList |-> NIL,
     rtable |-> [i \in 1..Len(refs) |-> RangeTableEntry(commandType, refs[i].relid, i)],
     targetList |-> targetList,
     jointree |-> [quals |-> quals],
     returningList |-> NIL,
     onConflict |-> NULL,
     requiresMasterEvaluation |-> requiresMasterEvaluation]

InitResults ==
    /\ pc = "start"
    /\ multiPlan = NULL
    /\ fatalError = ""
    /\ routerOut = RouterOutOf(NULL)
    /\ pruneLog = <<>>
    /\ placementLog = <<>>
    /\ callResult = NULL

-----------------------------------------------------------------------------
(* SELECT, UPDATE and DELETE statements over one or more table references   *)

InitRouter ==
    /\ EnableRouterExecution = TRUE
    /\ isCoordinator = TRUE
    /\ cache = RouterCache
    /\ placements \in PlacementCatalogs
    /\ workerNodes \in WorkerLists
    /\ \E commandType \in {CMD_SELECT, CMD_UPDATE, CMD_DELETE},
          refs \in TableRefLists,
          requiresMasterEvaluation \in BOOLEAN :
          /\ originalQuery =
                 PlainQuery(commandType, refs,
                            IF commandType = CMD_UPDATE
                            THEN <<TargetEntry(2, ConstExpr(0))>> ELSE <<>>,
                            NIL, requiresMasterEvaluation)
          /\ restrictionContext = RelationRestrictions(commandType, refs)
    /\ InitResults

-----------------------------------------------------------------------------
(* INSERT statements into one table whose shard array varies *)

Intervals == {<<lo, hi>> \in (0..MaxValue) \X (0..MaxValue) : lo <= hi}

IntervalArrays(maxLength) == UNION {[1..n -> Intervals] : n \in 0..maxLength}

\* the shards of relation 1 with the given value ranges, in array order
ShardArray(ranges) ==
    [k \in 1..Len(ranges) |-> Shard(1, 10 + k, ranges[k][1], ranges[k][2])]

\* hash and range partitioned tables keep their intervals sorted and disjoint
SortedIntervalArrays ==
    {ranges \in IntervalArrays(MaxShards) :
        \A k \in 1..(Len(ranges) - 1) : ranges[k][2] < ranges[k + 1][1]}

\* append partitioned tables may have overlapping intervals
AppendIntervalArrays == IntervalArrays(2)

\* a reference table has one shard; zero or two shards are a broken catalog
ReferenceIntervalArrays == {<<>>, <<<<0, MaxValue>>>>, <<<<0, MaxValue>>, <<0, MaxValue>>>>}

InsertCaches ==
    {<<Table(1, method, 1, ShardArray(ranges))>> :
        method \in {DISTRIBUTE_BY_HASH, DISTRIBUTE_BY_RANGE},
        ranges \in SortedIntervalArrays}
    \cup {<<Table(1, DISTRIBUTE_BY_APPEND, 1, ShardArray(ranges))>> :
            ranges \in AppendIntervalArrays}
    \cup {<<Table(1, DISTRIBUTE_BY_NONE, 0, ShardArray(ranges))>> :
            ranges \in ReferenceIntervalArrays}

\* what an INSERT may give the first column: a constant, NULL, a parameter, a
\* function call
InsertValueExprs ==
    {ConstExpr(v) : v \in 0..MaxValue}
    \cup {NullConst, ParamExpr}
    \cup {FuncExpr(volatility, <<>>) :
            volatility \in {PROVOLATILE_IMMUTABLE, PROVOLATILE_STABLE,
                            PROVOLATILE_VOLATILE}}

\* target lists over columns 1 and 2; column 1 may be left out
InsertTargetLists ==
    {<<TargetEntry(2, ConstExpr(0))>>}
    \cup {<<TargetEntry(1, e), TargetEntry(2, ConstExpr(0))>> : e \in InsertValueExprs}
    \cup {<<TargetEntry(2, ConstExpr(0)), TargetEntry(1, e)>> : e \in InsertValueExprs}

\* a statement with a parameter or a function call has to be evaluated on the
\* master before it is sent
NeedsEvaluation(targetList) ==
    \E k \in DOMAIN targetList : targetList[k].expr.tag \in {"Param", "FuncExpr"}

OnConflictClause ==
    [onConflictSet |-> NIL, arbiterWhere |-> NIL, onConflictWhere |-> NIL]

InitInsert ==
    /\ EnableRouterExecution = TRUE
    /\ isCoordinator = TRUE
    /\ cache \in InsertCaches
    /\ placements = ColocatedPlacements
    /\ workerNodes = <<Worker("w2", 5432), Worker("w1", 5432)>>
    /\ \E targetList \in InsertTargetLists,
          requiresMasterEvaluation \in BOOLEAN,
          onConflict \in {NULL, <<OnConflictClause>>} :
          /\ NeedsEvaluation(targetList) => requiresMasterEvaluation
          /\ originalQuery =
                 [PlainQuery(CMD_INSERT,
                             <<[relid |-> 1, shape |-> [restrictClauseList |-> <<>>,
                                                       pseudoRestrictionList |-> <<>>]]>>,
                             targetList, NIL, requiresMasterEvaluation)
                     EXCEPT !.onConflict = onConflict]
    /\ restrictionContext = <<>>
    /\ InitResults


-----------------------------------------------------------------------------
(* UPDATE, DELETE and INSERT statements with varied SET lists, WHERE clauses  *)
(* and unsupported features, over the catalog of RouterCache                 *)

\* the WHERE conjunct  column = value
EqualsConst(column, value) == EqualityExpr(column, ConstExpr(value))

\* what a SET entry may assign: constants, NULL, columns of the target table
\* and of the second table reference, a parameter, function calls
SetExprs ==
    {ConstExpr(0), ConstExpr(1), NullConst, ParamExpr,
     VarExpr(1, 1), VarExpr(1, 2), VarExpr(2, 1), VarExpr(2, 2),
     FuncExpr(PROVOLATILE_IMMUTABLE, <<ConstExpr(0)>>),
     FuncExpr(PROVOLATILE_STABLE, <<>>),
     FuncExpr(PROVOLATILE_STABLE, <<VarExpr(1, 2)>>),
     FuncExpr(PROVOLATILE_VOLATILE, <<>>),
     [tag |-> "CoalesceExpr", args |-> <<FuncExpr(PROVOLATILE_STABLE, <<>>)>>]}

\* SET lists over columns 1 and 2 with at most one entry per column
SetLists ==
    {<<>>}
    \cup {<<TargetEntry(1, e)>> : e \in SetExprs}
    \cup {<<TargetEntry(2, e)>> :
            e \in {ConstExpr(0), FuncExpr(PROVOLATILE_STABLE, <<VarExpr(1, 1)>>)}}
    \cup {<<TargetEntry(2, ConstExpr(0)), TargetEntry(1, e)>> : e \in SetExprs}

\* WHERE clauses: conjunctions of equalities of columns of the target table
\* with constants, and a volatile function call
WhereClauses ==
    {NIL,
     <<EqualsConst(VarExpr(1, 1), 0)>>,
     <<EqualsConst(VarExpr(1, 1), 1)>>,
     <<EqualsConst(VarExpr(1, 2), 0)>>,
     <<EqualsConst(VarExpr(1, 2), 1), EqualsConst(VarExpr(1, 1), 0)>>,
     <<EqualsConst(VarExpr(1, 1), 0), FuncExpr(PROVOLATILE_VOLATILE, <<>>)>>}

\* the constants the WHERE clause equates the given column with
RECURSIVE ClauseValues(_, _)
ClauseValues(quals, column) ==
    IF quals = NIL THEN <<>>
    ELSE IF /\ Head(quals).tag = "OpExpr"
            /\ Head(quals).args[1] = column
            /\ Head(quals).args[2].tag = "Const"
         THEN <<Head(quals).args[2].constvalue>> \o ClauseValues(Tail(quals), column)
         ELSE ClauseValues(Tail(quals), column)

\* features of a statement the validator looks at besides SET and WHERE
StatementFeatures ==
    {"plain", "sublink", "cte", "view", "values", "function", "returning"}

WithFeature(query, feature) ==
    CASE feature = "sublink" -> [query EXCEPT !.hasSubLinks = TRUE]
      [] feature = "cte" -> [query EXCEPT !.cteList = <<CMD_SELECT>>]
      [] feature = "view" -> [query EXCEPT !.rtable[1].relkind = RELKIND_VIEW]
      [] feature = "values" ->
             [query EXCEPT !.rtable = Append(@, [rtekind |-> RTE_VALUES, relid |-> 0,
                                                 relkind |-> "", requiredPerms |-> {},
                                                 shardId |-> INVALID_SHARD_ID])]
      [] feature = "function" ->
             [query EXCEPT !.rtable = Append(@, [rtekind |-> RTE_FUNCTION, relid |-> 0,
                                                 relkind |-> "", requiredPerms |-> {},
                                                 shardId |-> INVALID_SHARD_ID])]
      [] feature = "returning" ->
             [query EXCEPT !.returningList = <<FuncExpr(PROVOLATILE_STABLE, <<>>)>>]
      [] OTHER -> query

\* the table references of a statement on the target relation, joined with
\* relation 2 filtered to its first shard when joined is set
ValidateRefs(target, quals, joined) ==
    <<[relid |-> target,
       shape |-> [restrictClauseList |->
                      IF PartitionMethod(target) = DISTRIBUTE_BY_NONE THEN <<>>
                      ELSE ClauseValues(quals, VarExpr(1, 1)),
                  pseudoRestrictionList |-> <<>>]]>>
    \o (IF joined
        THEN <<[relid |-> 2, shape |-> [restrictClauseList |-> <<0>>,
                                        pseudoRestrictionList |-> <<>>]]>>
        ELSE <<>>)

InitValidate ==
    /\ EnableRouterExecution = TRUE
    /\ isCoordinator \in BOOLEAN
    /\ cache = RouterCache
    /\ placements = ColocatedPlacements
    /\ workerNodes = <<Worker("w2", 5432), Worker("w1", 5432)>>
    /\ \E commandType \in {CMD_UPDATE, CMD_DELETE, CMD_INSERT},
          target \in {1, 3},
          joined \in BOOLEAN,
          setList \in SetLists,
          quals \in WhereClauses,
          feature \in StatementFeatures :
          /\ commandType = CMD_INSERT => ~joined /\ quals = NIL
          /\ commandType = CMD_DELETE => setList = <<>>
          /\ \A k \in DOMAIN setList :
                 setList[k].expr.tag = "Var" =>
                     setList[k].expr.varno <= (IF joined THEN 2 ELSE 1)
          /\ LET refs == ValidateRefs(target, quals, joined)
                 whereClause == quals \o (IF joined
                                          THEN <<EqualsConst(VarExpr(2, 1), 0)>>
                                          ELSE <<>>)
             IN  /\ originalQuery =
                        WithFeature(PlainQuery(commandType, refs, setList,
                                               whereClause,
                                               NeedsEvaluation(setList)),
                                    feature)
                 /\ restrictionContext =
                        IF commandType = CMD_INSERT THEN <<>>
                        ELSE RelationRestrictions(commandType, refs)
    /\ InitResults

-----------------------------------------------------------------------------
(* SELECT, UPDATE and DELETE statements over a catalog whose relation 1 has  *)
(* distribution metadata but no shards                                       *)

NoShardsCaches ==
    {[RouterCache EXCEPT ![1] = Table(1, method, IF method = DISTRIBUTE_BY_NONE
                                                 THEN 0 ELSE 1, <<>>)] :
        method \in {DISTRIBUTE_BY_HASH, DISTRIBUTE_BY_RANGE, DISTRIBUTE_BY_NONE}}

\* table references to relation 1 and to relation 2, unfiltered or filtered to
\* the value 0
NoShardsRefLists ==
    UNION {[1..n -> {ref \in TableRefs :
                        /\ ref.relid \in {1, 2}
                        /\ ref.shape.pseudoRestrictionList = <<>>
                        /\ ref.shape.restrictClauseList \in {<<>>, <<0>>}}] :
           n \in 1..MaxRefs}

InitNoShards ==
    /\ EnableRouterExecution = TRUE
    /\ isCoordinator = TRUE
    /\ cache \in NoShardsCaches
    /\ placements = ColocatedPlacements
    /\ workerNodes \in WorkerLists
    /\ \E commandType \in {CMD_SELECT, CMD_UPDATE, CMD_DELETE},
          refs \in NoShardsRefLists,
          requiresMasterEvaluation \in BOOLEAN :
          /\ originalQuery =
                 PlainQuery(commandType, refs,
                            IF commandType = CMD_UPDATE
                            THEN <<TargetEntry(2, ConstExpr(0))>> ELSE <<>>,
                            NIL, requiresMasterEvaluation)
          /\ restrictionContext = RelationRestrictions(commandType, refs)
    /\ InitResults

-----------------------------------------------------------------------------
(* SpecPlanner: the statements above, planned by the entry points *)

InitPlanner == InitRouter \/ InitInsert \/ InitValidate \/ InitNoShards

NextPlanner == CreateRouterPlan \/ CreateModifyPlan

SpecPlanner == InitPlanner /\ [][NextPlanner]_vars

-----------------------------------------------------------------------------
(* SpecClassify: the routability classifier applied to statements of every   *)
(* command type, with router execution enabled or disabled                   *)

\* a call of MultiRouterPlannableQuery on the statement; callResult holds the
\* returned boolean
MultiRouterPlannableQueryCall ==
    /\ pc = "start"
    /\ callResult' = <<MultiRouterPlannableQuery(originalQuery, restrictionContext)>>
    /\ pc' = "classified"
    /\ UNCHANGED <<EnableRouterExecution, isCoordinator, cache, placements,
                   workerNodes, originalQuery, restrictionContext, multiPlan,
                   fatalError, routerOut, pruneLog, placementLog>>

\* table references to the four relations, each filtered to the value 0
ClassifyRefLists ==
    {[i \in 1..Len(relids) |->
         [relid |-> relids[i],
          shape |-> [restrictClauseList |-> <<0>>, pseudoRestrictionList |-> <<>>]]] :
     relids \in UNION {[1..n -> DOMAIN RouterCache] : n \in 1..MaxRefs}}

InitClassify ==
    /\ EnableRouterExecution \in BOOLEAN
    /\ isCoordinator = TRUE
    /\ cache = RouterCache
    /\ placements = ColocatedPlacements
    /\ workerNodes = <<Worker("w2", 5432), Worker("w1", 5432)>>
    /\ \E commandType \in {CMD_SELECT, CMD_INSERT, CMD_UPDATE, CMD_DELETE},
          refs \in ClassifyRefLists,
          hasForUpdate \in BOOLEAN :
          /\ hasForUpdate => commandType = CMD_SELECT
          /\ originalQuery =
                 [PlainQuery(commandType, refs,
                             IF commandType \in {CMD_UPDATE, CMD_INSERT}
                             THEN <<TargetEntry(1, ConstExpr(0)),
                                    TargetEntry(2, ConstExpr(0))>>
                             ELSE <<>>,
                             NIL, FALSE)
                     EXCEPT !.hasForUpdate = hasForUpdate]
          /\ restrictionContext = RelationRestrictions(commandType, refs)
    /\ InitResults

NextClassify == MultiRouterPlannableQueryCall \/ CreateRouterPlan

SpecClassify == InitClassify /\ [][NextClassify]_vars

-----------------------------------------------------------------------------
(* SpecValidate: the modification validator and the expression reducibility *)
(* analyzer applied to modification statements, the validator in the        *)
(* single-shard and in the multi-shard context                              *)

\* how many calls one behaviour makes on its statement
MaxCalls == 2

\* how deep the expressions given to the analyzer nest
MaxDepth == 2

\* the calls of MasterIrreducibleExpression in ModifyQuerySupported: on the
\* expression of target entry k of an UPDATE, after the resjunk skip and the
\* volatile-function check, and (k = 0) on the quals of the join tree, after
\* their volatile-function check
AnalyzerCallSite(queryTree, k) ==
    /\ queryTree.commandType \in {CMD_INSERT, CMD_UPDATE, CMD_DELETE}
    /\ IF k = 0
       THEN ~contain_volatile_functions(ListNode(queryTree.jointree.quals))
       ELSE /\ queryTree.commandType = CMD_UPDATE
            /\ ~queryTree.targetList[k].resjunk
            /\ ~contain_volatile_functions(queryTree.targetList[k].expr)

\* the expression the analyzer is given at that call
AnalyzedExpression(queryTree, k) ==
    IF k = 0
    THEN IF queryTree.jointree.quals = NIL THEN NULL
         ELSE <<ListNode(queryTree.jointree.quals)>>
    ELSE <<queryTree.targetList[k].expr>>

\* the caller's two flags before a call: both clear, as ModifyQuerySupported
\* declares them, or both set by earlier calls
CallerFlags == {<<FALSE, FALSE>>, <<TRUE, TRUE>>}

\* one call of the analyzer on an expression of the statement; callResult
\* gets the call and what it returned
MasterIrreducibleExpressionCall ==
    /\ pc \in {"start", "called"}
    /\ Len(callResult) < MaxCalls
    /\ \E k \in 0..Len(originalQuery.targetList), flags \in CallerFlags :
        LET hasVarArgument == flags[1]
            hasBadCoalesce == flags[2]
        IN
          /\ AnalyzerCallSite(originalQuery, k)
          /\ callResult' =
                 Append(callResult,
                        [call |-> "MasterIrreducibleExpression",
                         position |-> k,
                         expression |-> AnalyzedExpression(originalQuery, k),
                         hasVarArgument |-> hasVarArgument,
                         hasBadCoalesce |-> hasBadCoalesce,
                         returned |->
                             MasterIrreducibleExpression(
                                 AnalyzedExpression(originalQuery, k),
                                 hasVarArgument, hasBadCoalesce)])
    /\ pc' = "called"
    /\ UNCHANGED <<EnableRouterExecution, isCoordinator, cache, placements,
                   workerNodes, originalQuery, restrictionContext, multiPlan,
                   fatalError, routerOut, pruneLog, placementLog>>

\* one call of the validator on the statement; callResult gets the call and
\* the error it returned
ModifyQuerySupportedCall ==
    /\ pc \in {"start", "called"}
    /\ Len(callResult) < MaxCalls
    /\ \E multiShardQuery \in BOOLEAN :
          callResult' =
              Append(callResult,
                     [call |-> "ModifyQuerySupported",
                      multiShardQuery |-> multiShardQuery,
                      returned |->
                          [error |-> ModifyQuerySupported(originalQuery,
                                                          multiShardQuery)]])
    /\ pc' = "called"
    /\ UNCHANGED <<EnableRouterExecution, isCoordinator, cache, placements,
                   workerNodes, originalQuery, restrictionContext, multiPlan,
                   fatalError, routerOut, pruneLog, placementLog>>

CoalesceExpr(args) == [tag |-> "CoalesceExpr", args |-> args]

CaseExpr(args) == [tag |-> "CaseExpr", args |-> args]

\* what stands beside a nested argument in a two-argument call
SiblingExprs ==
    {VarExpr(1, 2), ConstExpr(0), FuncExpr(PROVOLATILE_STABLE, <<>>)}

\* the expressions free of volatile functions that nest at most depth deep:
\* columns, constants, immutable and stable calls of up to two arguments,
\* COALESCE and CASE
RECURSIVE AnalyzerExprs(_)
AnalyzerExprs(depth) ==
    IF depth = 0 THEN {VarExpr(1, 2), ConstExpr(0)}
    ELSE LET inner == AnalyzerExprs(depth - 1)
             volatilities == {PROVOLATILE_IMMUTABLE, PROVOLATILE_STABLE}
         IN  inner
             \cup {FuncExpr(v, <<>>) : v \in volatilities}
             \cup {FuncExpr(v, <<a>>) : v \in volatilities, a \in inner}
             \cup {FuncExpr(v, <<a, b>>) :
                      v \in volatilities, a \in inner, b \in SiblingExprs}
             \cup {FuncExpr(v, <<b, a>>) :
                      v \in volatilities, a \in inner, b \in SiblingExprs}
             \cup {CoalesceExpr(<<a>>) : a \in inner}
             \cup {CaseExpr(<<a>>) : a \in inner}

\* the filters of a table reference that has none
Unfiltered == [restrictClauseList |-> <<>>, pseudoRestrictionList |-> <<>>]

\* UPDATE and DELETE statements on relation 1 with one of the expressions as
\* the value of a SET entry of column 2 or as the WHERE clause
InitAnalyze ==
    /\ EnableRouterExecution = TRUE
    /\ isCoordinator = TRUE
    /\ cache = RouterCache
    /\ placements = ColocatedPlacements
    /\ workerNodes = <<Worker("w2", 5432), Worker("w1", 5432)>>
    /\ \E expr \in AnalyzerExprs(MaxDepth),
          commandType \in {CMD_UPDATE, CMD_DELETE},
          inSetList \in BOOLEAN :
          /\ inSetList => commandType = CMD_UPDATE
          /\ originalQuery =
                 PlainQuery(commandType, <<[relid |-> 1, shape |-> Unfiltered]>>,
                            IF commandType = CMD_DELETE THEN <<>>
                            ELSE <<TargetEntry(2, IF inSetList THEN expr
                                                  ELSE ConstExpr(0))>>,
                            IF inSetList THEN <<EqualsConst(VarExpr(1, 1), 0)>>
                            ELSE <<expr>>,
                            TRUE)
    /\ restrictionContext = <<>>
    /\ InitResults

\* a range table entry that is not a relation
OtherRangeTableEntry(rtekind) ==
    [rtekind |-> rtekind, relid |-> 0, relkind |-> "", requiredPerms |-> {},
     shardId |-> INVALID_SHARD_ID]

\* the excluded-row pseudo-table of INSERT ... ON CONFLICT: a second range
\* table entry for the target relation
ExcludedRangeTableEntry(relid) ==
    [rtekind |-> RTE_RELATION, relid |-> relid, relkind |-> RELKIND_RELATION,
     requiredPerms |-> {}, shardId |-> INVALID_SHARD_ID]

\* what a DO UPDATE SET entry may assign: columns of the target and of the
\* excluded row, a constant, function calls of each volatility
UpsertSetExprs ==
    {VarExpr(1, 1), VarExpr(1, 2), VarExpr(2, 1), VarExpr(2, 2), ConstExpr(0),
     FuncExpr(PROVOLATILE_IMMUTABLE, <<VarExpr(2, 2)>>),
     FuncExpr(PROVOLATILE_STABLE, <<>>),
     FuncExpr(PROVOLATILE_VOLATILE, <<>>)}

\* DO UPDATE SET lists over columns 1 and 2, as expand_targetlist() leaves
\* them: an entry for every column, or none at all for DO NOTHING
UpsertSetLists ==
    {NIL}
    \cup {<<TargetEntry(1, e1), TargetEntry(2, e2)>> :
             e1 \in UpsertSetExprs, e2 \in UpsertSetExprs}

\* the predicates of an ON CONFLICT clause and the entries of a RETURNING list
UpsertClauses ==
    {NIL,
     <<EqualsConst(VarExpr(1, 2), 0)>>,
     <<FuncExpr(PROVOLATILE_STABLE, <<>>)>>,
     <<FuncExpr(PROVOLATILE_VOLATILE, <<>>)>>}

\* INSERT ... ON CONFLICT statements on the hash-distributed relation 1 and
\* on the reference table 3
InitUpsert ==
    /\ EnableRouterExecution = TRUE
    /\ isCoordinator = TRUE
    /\ cache = RouterCache
    /\ placements = ColocatedPlacements
    /\ workerNodes = <<Worker("w2", 5432), Worker("w1", 5432)>>
    /\ \E target \in {1, 3},
          value \in {ConstExpr(0), FuncExpr(PROVOLATILE_VOLATILE, <<>>)},
          onConflictSet \in UpsertSetLists,
          clauses \in {<<NIL, NIL, NIL>>} \cup
                      {<<c, NIL, NIL>> : c \in UpsertClauses} \cup
                      {<<NIL, c, NIL>> : c \in UpsertClauses} \cup
                      {<<NIL, NIL, c>> : c \in UpsertClauses} :
          originalQuery =
              [PlainQuery(CMD_INSERT, <<[relid |-> target, shape |-> Unfiltered]>>,
                          <<TargetEntry(1, ConstExpr(0)), TargetEntry(2, value)>>,
                          NIL, TRUE)
                  EXCEPT !.rtable = Append(@, ExcludedRangeTableEntry(target)),
                         !.onConflict = <<[onConflictSet |-> onConflictSet,
                                          arbiterWhere |-> clauses[1],
                                          onConflictWhere |-> clauses[2]]>>,
                         !.returningList = clauses[3]]
    /\ restrictionContext = <<>>
    /\ InitResults

\* what a statement may have in its range table besides the target: other
\* relations, subqueries, joins and functions in the FROM clause
FromClauseLists ==
    LET entries == {RangeTableEntry(CMD_SELECT, 2, 2),
                    RangeTableEntry(CMD_SELECT, 3, 2),
                    OtherRangeTableEntry(RTE_SUBQUERY),
                    OtherRangeTableEntry(RTE_JOIN),
                    OtherRangeTableEntry(RTE_FUNCTION)}
    IN  UNION {[1..n -> entries] : n \in 0..MaxRefs}

\* INSERT, UPDATE and DELETE statements with sub-selects in their expressions
\* and with other entries than the target in their range tables
InitFromClause ==
    /\ EnableRouterExecution = TRUE
    /\ isCoordinator \in BOOLEAN
    /\ cache = RouterCache
    /\ placements = ColocatedPlacements
    /\ workerNodes = <<Worker("w2", 5432), Worker("w1", 5432)>>
    /\ \E commandType \in {CMD_INSERT, CMD_UPDATE, CMD_DELETE},
          target \in {1, 3},
          hasSubLinks \in BOOLEAN,
          fromClause \in FromClauseLists,
          value \in {ConstExpr(0), FuncExpr(PROVOLATILE_STABLE, <<VarExpr(1, 2)>>)} :
          /\ commandType = CMD_DELETE => value = ConstExpr(0)
          \* what an INSERT reads besides its target it reads in a sub-select
          /\ commandType = CMD_INSERT /\ fromClause # <<>> =>
                 hasSubLinks \/ fromClause[1].rtekind = RTE_SUBQUERY
          /\ originalQuery =
                 [PlainQuery(commandType, <<[relid |-> target, shape |-> Unfiltered]>>,
                             IF commandType = CMD_DELETE THEN <<>>
                             ELSE <<TargetEntry(2, value)>>,
                             IF commandType = CMD_INSERT THEN NIL
                             ELSE <<EqualsConst(VarExpr(1, 1), 0)>>,
                             TRUE)
                     EXCEPT !.hasSubLinks = hasSubLinks,
                            !.rtable = @ \o fromClause]
    /\ restrictionContext = <<>>
    /\ InitResults

InitValidateCalls == InitValidate \/ InitAnalyze \/ InitUpsert \/ InitFromClause

NextValidate == ModifyQuerySupportedCall \/ MasterIrreducibleExpressionCall

SpecValidate == InitValidateCalls /\ [][NextValidate]_vars

-----------------------------------------------------------------------------
(* Properties of the filter-based path, checked under SpecPlanner *)

\* PlanRouterQuery ran and returned no error
RouterSucceeded ==
    /\ pc = "done"
    /\ routerOut.ran
    /\ routerOut.planningError = NULL

\* the pruned shard list the restriction context holds for table reference i
PrunedShardIntervalList(i) == restrictionContext[i].prunedShardIntervalList

SameTable(i, j) == restrictionContext[i].relationId = restrictionContext[j].relationId

\* C1, as amended: whenever PlanRouterQuery returns no error, every table
\* reference's pruned shard list has at most one shard, and any two references
\* to the same table whose pruned lists are both non-empty have identical
\* pruned lists.
C1_SingleShardInvariant ==
    RouterSucceeded =>
        /\ \A i \in DOMAIN restrictionContext : Len(PrunedShardIntervalList(i)) <= 1
        /\ \A i, j \in DOMAIN restrictionContext :
               /\ SameTable(i, j)
               /\ PrunedShardIntervalList(i) # NIL
               /\ PrunedShardIntervalList(j) # NIL
               => PrunedShardIntervalList(i) = PrunedShardIntervalList(j)

\* two references to one table, both pruned to the same single shard
C1_Witness ==
    /\ RouterSucceeded
    /\ \E i, j \in DOMAIN restrictionContext :
           /\ i # j
           /\ SameTable(i, j)
           /\ Len(PrunedShardIntervalList(i)) = 1
           /\ PrunedShardIntervalList(i) = PrunedShardIntervalList(j)

\* C1 as the specification states it: on success every pruned list has at most
\* one shard and ALL references to the same table have identical pruned lists
C1_AsStated ==
    RouterSucceeded =>
        /\ \A i \in DOMAIN restrictionContext : Len(PrunedShardIntervalList(i)) <= 1
        /\ \A i, j \in DOMAIN restrictionContext :
               SameTable(i, j) => PrunedShardIntervalList(i) = PrunedShardIntervalList(j)

\* what pruning leaves of table reference i, computed from its filters alone
FilteredShards(i) ==
    LET relationRestriction == restrictionContext[i]
        shards == DistributedTableCacheEntry(relationRestriction.relationId)
                      .sortedShardIntervalArray
    IN  IF ContainsFalseClause(relationRestriction.pseudoRestrictionList)
           \/ shards = <<>>
        THEN NIL
        ELSE PruneShards(relationRestriction.relationId, relationRestriction.index,
                         relationRestriction.restrictClauseList)

\* some table reference is left with more than one shard
SomeRelationMultiShard ==
    \E i \in DOMAIN restrictionContext : Len(FilteredShards(i)) > 1

\* two references to one table are left with different single shards
SameTableDifferentShards ==
    \E i, j \in DOMAIN restrictionContext :
        /\ SameTable(i, j)
        /\ FilteredShards(i) # NIL
        /\ FilteredShards(j) # NIL
        /\ FilteredShards(i) # FilteredShards(j)

\* the references left with a shard, in range table order
ShardedRefs == {i \in DOMAIN restrictionContext : FilteredShards(i) # NIL}

\* every reference is left with at most one shard, the references to one
\* table agree, and at least one reference is left with a shard
SingleShardsPresent ==
    /\ pc = "done"
    /\ routerOut.ran
    /\ ~SomeRelationMultiShard
    /\ ~SameTableDifferentShards
    /\ ShardedRefs # {}

NodeOf(placement) == <<placement.nodeName, placement.nodePort>>

NodesOf(placementList) == {NodeOf(placementList[k]) : k \in DOMAIN placementList}

ActivePlacements(i) == FinalizedShardPlacementList(FilteredShards(i)[1].shardId)

\* the (nodeName, nodePort) pairs that hold a placement of every remaining shard
CommonNodes ==
    {node \in UNION {NodesOf(ActivePlacements(i)) : i \in ShardedRefs} :
        \A i \in ShardedRefs : node \in NodesOf(ActivePlacements(i))}

LastShardedRef == CHOOSE i \in ShardedRefs : \A j \in ShardedRefs : j <= i

NoWorkerError ==
    DeferredError("found no worker with all shard placements", "", "")

\* C2: for non-empty pruned shard lists S1..Sn the placement list PlanRouterQuery
\* sets holds exactly one placement for every (nodeName, nodePort) pair that
\* appears in the active placements of every Si; for n = 1 it is S1's active
\* placement list unchanged; and when no pair is common to all Si,
\* PlanRouterQuery returns 'found no worker with all shard placements' and sets
\* no placement list.
C2_PlacementIntersection ==
    SingleShardsPresent =>
        IF CommonNodes = {}
        THEN /\ routerOut.planningError = NoWorkerError
             /\ routerOut.placementList = NIL
        ELSE /\ routerOut.planningError = NULL
             /\ NodesOf(routerOut.placementList) = CommonNodes
             /\ Len(routerOut.placementList) = Cardinality(CommonNodes)
             /\ \A k \in DOMAIN routerOut.placementList :
                    \E m \in DOMAIN ActivePlacements(LastShardedRef) :
                        routerOut.placementList[k] = ActivePlacements(LastShardedRef)[m]
             /\ Cardinality(ShardedRefs) = 1 =>
                    routerOut.placementList = ActivePlacements(LastShardedRef)

\* two shards of different tables whose placements share one worker but not all
C2_Witness ==
    /\ SingleShardsPresent
    /\ \E i, j \in ShardedRefs :
           /\ FilteredShards(i) # FilteredShards(j)
           /\ NodesOf(ActivePlacements(i)) # NodesOf(ActivePlacements(j))
    /\ CommonNodes # {}
    /\ NodesOf(routerOut.placementList) = CommonNodes

\* the first table reference left with more than one shard
FirstMultiShardRef ==
    CHOOSE i \in DOMAIN restrictionContext :
        /\ Len(FilteredShards(i)) > 1
        /\ \A j \in 1..(i - 1) : Len(FilteredShards(j)) <= 1

\* the relations PruneShards is called for among the first n table references
RECURSIVE PrunedRelations(_)
PrunedRelations(n) ==
    IF n = 0 THEN <<>>
    ELSE LET relationRestriction == restrictionContext[n]
             shards == DistributedTableCacheEntry(relationRestriction.relationId)
                           .sortedShardIntervalArray
         IN  IF ContainsFalseClause(relationRestriction.pseudoRestrictionList)
                \/ shards = <<>>
             THEN PrunedRelations(n - 1)
             ELSE Append(PrunedRelations(n - 1), relationRestriction.relationId)

MultiShardMessage(commandType) ==
    "cannot run " \o CommandName(commandType)
        \o " command which targets multiple shards"

\* C9: when some relation prunes to more than one shard, a planning call that
\* reaches PlanRouterQuery prunes no relation after that one, looks up no
\* placement, produces no placement list, anchor shard or relation-to-shard
\* mapping and leaves the statement as it was; an UPDATE or DELETE gets a plan
\* carrying the 'targets multiple shards' DeferredError and no Job, and a
\* SELECT gets no plan at all (NULL).
C9_MultiShardAbort ==
    [][(pc = "start" /\ SomeRelationMultiShard /\ routerOut'.ran) =>
          /\ pruneLog' = pruneLog \o PrunedRelations(FirstMultiShardRef)
          /\ \A i \in DOMAIN restrictionContext :
                 i > FirstMultiShardRef => restrictionContext'[i] = restrictionContext[i]
          /\ placementLog' = placementLog
          /\ routerOut'.placementList = NIL
          /\ routerOut'.anchorShardId = INVALID_SHARD_ID
          /\ routerOut'.relationShardList = NIL
          /\ originalQuery' = originalQuery
          /\ fatalError' = ""
          /\ IF originalQuery.commandType = CMD_SELECT
             THEN multiPlan' = NULL
             ELSE /\ multiPlan' # NULL
                  /\ multiPlan'[1].planningError # NULL
                  /\ multiPlan'[1].planningError[1].message =
                         MultiShardMessage(originalQuery.commandType)
                  /\ multiPlan'[1].workerJob = NULL
                  /\ ~multiPlan'[1].routerExecutable]_vars

\* an UPDATE whose second table reference is the first left with two shards,
\* after the first reference was pruned to a single shard
C9_Witness ==
    /\ pc = "done"
    /\ routerOut.ran
    /\ originalQuery.commandType = CMD_UPDATE
    /\ SomeRelationMultiShard
    /\ FirstMultiShardRef = 2
    /\ Len(FilteredShards(1)) = 1
    /\ PrunedShardIntervalList(1) = FilteredShards(1)
    /\ multiPlan # NULL
    /\ multiPlan[1].planningError # NULL
    /\ multiPlan[1].planningError[1].message = MultiShardMessage(CMD_UPDATE)

\* every table reference is left with no shard
AllShardsPruned ==
    /\ pc = "done"
    /\ routerOut.ran
    /\ \A i \in DOMAIN restrictionContext : FilteredShards(i) = NIL

\* C10: when every relation's pruned shard list is empty and at least one
\* active worker exists, PlanRouterQuery (called with
\* replacePrunedQueryWithDummy) returns no error and sets a placement list of
\* exactly one placement whose node name, port and group are those of an
\* active worker, an empty relation-to-shard mapping and the invalid anchor
\* shard id.
C10_PlaceholderPlacement ==
    (AllShardsPruned /\ ActivePrimaryNodeList # NIL) =>
        /\ routerOut.planningError = NULL
        /\ Len(routerOut.placementList) = 1
        /\ \E w \in DOMAIN ActivePrimaryNodeList :
               /\ routerOut.placementList[1].nodeName = ActivePrimaryNodeList[w].workerName
               /\ routerOut.placementList[1].nodePort = ActivePrimaryNodeList[w].workerPort
               /\ routerOut.placementList[1].groupId = ActivePrimaryNodeList[w].groupId
        /\ routerOut.relationShardList = NIL
        /\ routerOut.anchorShardId = INVALID_SHARD_ID

\* two table references, both pruned away, and the placeholder names the
\* first active worker
C10_Witness ==
    /\ AllShardsPruned
    /\ Len(restrictionContext) = 2
    /\ ActivePrimaryNodeList # NIL
    /\ Len(routerOut.placementList) = 1
    /\ routerOut.placementList[1].nodeName = ActivePrimaryNodeList[1].workerName
    /\ routerOut.placementList[1].shardId = INVALID_SHARD_ID

-----------------------------------------------------------------------------
(* Properties of the INSERT path, checked under SpecPlanner *)

\* an INSERT that the validator accepted has been planned
InsertPlanned ==
    /\ pc = "done"
    /\ originalQuery.commandType = CMD_INSERT
    /\ ModifyQuerySupported(originalQuery, FALSE) = NULL

InsertTable == DistributedTableCacheEntry(ExtractFirstDistributedTableId(originalQuery))

\* the target entries that feed the partition column of the INSERT's table
InsertPartitionEntries ==
    SelectSeq(originalQuery.targetList,
              LAMBDA tle : tle.resno = InsertTable.partitionAttno)

\* the INSERT gives the partition column a non-null literal
InsertsConstant ==
    /\ InsertTable.partitionMethod # DISTRIBUTE_BY_NONE
    /\ InsertPartitionEntries # <<>>
    /\ InsertPartitionEntries[1].expr.tag = "Const"
    /\ ~InsertPartitionEntries[1].expr.constisnull

\* the shards of the INSERT's table whose interval contains the value
ShardsContaining(v) ==
    {k \in DOMAIN InsertTable.sortedShardIntervalArray :
        /\ InsertTable.sortedShardIntervalArray[k].minValue <= v
        /\ v <= InsertTable.sortedShardIntervalArray[k].maxValue}

\* the plan carries a Job with exactly one Task, anchored at the given shard
PlannedOneTaskAt(shardId) ==
    /\ fatalError = ""
    /\ multiPlan # NULL
    /\ multiPlan[1].planningError = NULL
    /\ multiPlan[1].workerJob # NULL
    /\ Len(multiPlan[1].workerJob[1].taskList) = 1
    /\ multiPlan[1].workerJob[1].taskList[1].anchorShardId = shardId

\* C3: for an INSERT of a non-null constant v into a HASH or RANGE table (whose
\* intervals are sorted and disjoint) at most one interval has min <= v <= max,
\* and when one has, the plan's single Task is anchored at that interval's
\* shard; an INSERT into a reference table with exactly one shard is anchored
\* at that shard whatever its target list is.
C3_InsertDeterminism ==
    InsertPlanned =>
        /\ (/\ InsertTable.partitionMethod \in {DISTRIBUTE_BY_HASH, DISTRIBUTE_BY_RANGE}
            /\ InsertsConstant)
           => LET v == InsertPartitionEntries[1].expr.constvalue
              IN  /\ Cardinality(ShardsContaining(v)) <= 1
                  /\ \A k \in ShardsContaining(v) :
                         PlannedOneTaskAt(InsertTable.sortedShardIntervalArray[k].shardId)
        /\ (/\ InsertTable.partitionMethod = DISTRIBUTE_BY_NONE
            /\ Len(InsertTable.sortedShardIntervalArray) = 1)
           => PlannedOneTaskAt(InsertTable.sortedShardIntervalArray[1].shardId)

\* a constant that falls into the last of three shards of a range table
C3_Witness ==
    /\ InsertPlanned
    /\ InsertTable.partitionMethod = DISTRIBUTE_BY_RANGE
    /\ InsertsConstant
    /\ Len(InsertTable.sortedShardIntervalArray) = 3
    /\ ShardsContaining(InsertPartitionEntries[1].expr.constvalue) = {3}
    /\ PlannedOneTaskAt(InsertTable.sortedShardIntervalArray[3].shardId)

\* the plan carries a Job whose pruning is deferred
DeferredPruningJob ==
    /\ multiPlan # NULL
    /\ multiPlan[1].workerJob # NULL
    /\ multiPlan[1].workerJob[1].deferredPruning

\* the INSERT gives the partition column of a non-reference table an
\* expression that is not a literal
InsertsNonConstant ==
    /\ originalQuery.commandType = CMD_INSERT
    /\ InsertTable.partitionMethod # DISTRIBUTE_BY_NONE
    /\ InsertPartitionEntries # <<>>
    /\ InsertPartitionEntries[1].expr.tag # "Const"

\* C4: an INSERT into a non-reference table that the validator accepts and
\* whose partition column expression exists but is not a literal gets, without
\* any error, a Job with deferredPruning and requiresMasterEvaluation set and
\* an empty task list; and no plan of any other statement (SELECT, UPDATE,
\* DELETE, an INSERT of a constant, an INSERT into a reference table) carries
\* a Job with deferredPruning set.
C4_DeferredPruning ==
    /\ (InsertPlanned /\ InsertsNonConstant) =>
           /\ fatalError = ""
           /\ multiPlan # NULL
           /\ multiPlan[1].planningError = NULL
           /\ DeferredPruningJob
           /\ multiPlan[1].workerJob[1].requiresMasterEvaluation
           /\ multiPlan[1].workerJob[1].taskList = NIL
    /\ DeferredPruningJob => InsertsNonConstant

\* an INSERT whose partition value is a parameter, planned with pruning deferred
C4_Witness ==
    /\ InsertPlanned
    /\ InsertsNonConstant
    /\ InsertPartitionEntries[1].expr.tag = "Param"
    /\ DeferredPruningJob
    /\ multiPlan[1].workerJob[1].taskList = NIL

-----------------------------------------------------------------------------
(* Properties of the validator, checked under SpecPlanner *)

\* the partition column of the statement's table, as the validator takes it
TargetPartitionColumn ==
    PartitionColumn(ExtractFirstDistributedTableId(originalQuery), 1)

\* the SET entries of the statement that assign the partition column
PartitionAssignments ==
    SelectSeq(originalQuery.targetList,
              LAMBDA tle : /\ ~tle.resjunk
                           /\ tle.resno = TargetPartitionColumn[1].varattno)

\* the statement without its assignment of the partition column
WithoutPartitionAssignment ==
    [originalQuery EXCEPT !.targetList =
        SelectSeq(@, LAMBDA tle : tle.resno # TargetPartitionColumn[1].varattno)]

\* the WHERE clause has the conjunct  partition column = the given literal
WhereConstrainsTo(literal) ==
    /\ ~literal.constisnull
    /\ \E k \in DOMAIN originalQuery.jointree.quals :
           LET clause == originalQuery.jointree.quals[k]
           IN  /\ clause.tag = "OpExpr"
               /\ clause.opno = "="
               /\ clause.args[1] = TargetPartitionColumn[1]
               /\ clause.args[2].tag = "Const"
               /\ ~clause.args[2].constisnull
               /\ clause.args[2].constvalue = literal.constvalue

\* an UPDATE that assigns the partition column once is about to be planned,
\* and no validator rule other than the partition-value rule rejects it
UpdateOfPartitionColumn ==
    /\ pc = "start"
    /\ originalQuery.commandType = CMD_UPDATE
    /\ TargetPartitionColumn # NULL
    /\ Len(PartitionAssignments) = 1
    /\ ModifyQuerySupported(WithoutPartitionAssignment, FALSE) = NULL
    /\ ~contain_volatile_functions(PartitionAssignments[1].expr)
    /\ ~MasterIrreducibleExpression(<<PartitionAssignments[1].expr>>, FALSE, FALSE)
            .varArgument
    /\ ~MasterIrreducibleExpression(<<PartitionAssignments[1].expr>>, FALSE, FALSE)
            .badCoalesce

PartitionValueError ==
    DeferredError("modifying the partition value of rows is not allowed", "", "")

\* the plan a validator rejection returns
RejectedPlan(query, error) == <<[NewMultiPlan(query) EXCEPT !.planningError = error]>>

\* C5: with all other validator rules satisfied, an UPDATE that assigns the
\* partition column a literal the WHERE clause does not constrain the column
\* to is rejected with 'modifying the partition value of rows is not allowed';
\* an UPDATE that assigns the partition column to itself, or to the literal
\* the WHERE clause constrains it to, is accepted by the validator (planning
\* goes on to RouterJob).
C5_PartitionImmutability ==
    [][(UpdateOfPartitionColumn /\ pc' = "done") =>
          LET setExpr == PartitionAssignments[1].expr
          IN  /\ (setExpr.tag = "Const" /\ ~WhereConstrainsTo(setExpr)) =>
                     /\ multiPlan' = RejectedPlan(originalQuery, PartitionValueError)
                     /\ ~routerOut'.ran
              /\ (\/ setExpr = TargetPartitionColumn[1]
                  \/ setExpr.tag = "Const" /\ WhereConstrainsTo(setExpr)) =>
                     routerOut'.ran]_vars

\* UPDATE ... SET col = 1 WHERE col = 0 was rejected for modifying the
\* partition value
C5_Witness ==
    /\ pc = "done"
    /\ originalQuery.commandType = CMD_UPDATE
    /\ TargetPartitionColumn # NULL
    /\ Len(PartitionAssignments) = 1
    /\ PartitionAssignments[1].expr = ConstExpr(1)
    /\ WhereConstrainsTo(ConstExpr(0))
    /\ ~routerOut.ran
    /\ multiPlan = RejectedPlan(originalQuery, PartitionValueError)

\* C6 as the specification states it: an UPDATE SET entry for the partition
\* column is rejected as modifying the partition value (when no other
\* validator rule rejects first) unless its expression is the target table's
\* own partition column or a constant the WHERE clause implies equal; so an
\* assignment from a column of a different table reference, from a parameter
\* or from a function call is rejected.
C6_AsStated ==
    [][(UpdateOfPartitionColumn /\ pc' = "done") =>
          LET setExpr == PartitionAssignments[1].expr
          IN  (/\ setExpr # TargetPartitionColumn[1]
               /\ ~(setExpr.tag = "Const" /\ WhereConstrainsTo(setExpr))) =>
                  /\ multiPlan' = RejectedPlan(originalQuery, PartitionValueError)
                  /\ ~routerOut'.ran]_vars

\* C7: when the validator rejects an INSERT, UPDATE or DELETE, CreateModifyPlan
\* returns a plan that carries the validator's error and no Job, having pruned
\* no relation, looked up no placement, and left the restriction context and
\* the statement as they were.
C7_ValidatorRejection ==
    [][(/\ pc = "start"
        /\ pc' = "done"
        /\ originalQuery.commandType \in {CMD_INSERT, CMD_UPDATE, CMD_DELETE}
        /\ ModifyQuerySupported(originalQuery, FALSE) # NULL) =>
          /\ multiPlan' = RejectedPlan(originalQuery,
                                       ModifyQuerySupported(originalQuery, FALSE))
          /\ multiPlan'[1].workerJob = NULL
          /\ fatalError' = ""
          /\ ~routerOut'.ran
          /\ pruneLog' = pruneLog
          /\ placementLog' = placementLog
          /\ restrictionContext' = restrictionContext
          /\ originalQuery' = originalQuery]_vars

\* a rejected UPDATE whose WHERE clause would have pruned its table to one
\* shard: nothing was pruned and no Job was attached
C7_Witness ==
    /\ pc = "done"
    /\ originalQuery.commandType = CMD_UPDATE
    /\ ModifyQuerySupported(originalQuery, FALSE) # NULL
    /\ multiPlan = RejectedPlan(originalQuery, ModifyQuerySupported(originalQuery, FALSE))
    /\ restrictionContext # <<>>
    /\ Len(FilteredShards(1)) = 1
    /\ PrunedShardIntervalList(1) = NIL
    /\ pruneLog = <<>>
    /\ placementLog = <<>>

-----------------------------------------------------------------------------
(* Properties of the classifier, checked under SpecClassify *)

\* some referenced base relation is partitioned by a method other than HASH,
\* RANGE or NONE
UnsupportedPartitionMethod ==
    \E i \in DOMAIN restrictionContext :
        /\ restrictionContext[i].rte.rtekind = RTE_RELATION
        /\ cache[restrictionContext[i].rte.relid].partitionMethod
               \notin {DISTRIBUTE_BY_HASH, DISTRIBUTE_BY_RANGE, DISTRIBUTE_BY_NONE}

-----------------------------------------------------------------------------
(* Properties of Job and Task assembly, checked under SpecPlanner *)

\* an UPDATE or DELETE that the validator accepted went through RouterJob and
\* a plan with a Job and no error came back
ModifyJobReturned ==
    /\ pc = "done"
    /\ originalQuery.commandType \in {CMD_UPDATE, CMD_DELETE}
    /\ routerOut.ran
    /\ fatalError = ""
    /\ multiPlan # NULL
    /\ multiPlan[1].planningError = NULL
    /\ multiPlan[1].workerJob # NULL

\* the relation the UPDATE or DELETE modifies
TargetRelationId == GetUpdateOrDeleteRTE(originalQuery.rtable)[1].relid

\* every reference to the modified relation is left with no shard
TargetRelationPruned ==
    \A i \in DOMAIN restrictionContext :
        restrictionContext[i].relationId = TargetRelationId => FilteredShards(i) = NIL

\* C11, as amended: for an UPDATE or DELETE that passes the validator and
\* whose target relation prunes to zero shards, the returned Job has an empty
\* task list when the statement needs no master evaluation (the target was
\* rewritten into an empty subquery); when it needs master evaluation the
\* rewrite is skipped and the Job has exactly one MODIFY task that carries the
\* resolved placement list, which is the placeholder placement when every
\* relation of the statement was pruned away.
C11_PrunedModification ==
    (ModifyJobReturned /\ TargetRelationPruned) =>
        LET job == multiPlan[1].workerJob[1]
        IN  /\ ~RequiresMasterEvaluation(originalQuery) => job.taskList = NIL
            /\ RequiresMasterEvaluation(originalQuery) =>
                   /\ Len(job.taskList) = 1
                   /\ job.taskList[1].taskType = MODIFY_TASK
                   /\ job.taskList[1].taskPlacementList = routerOut.placementList
                   /\ AllShardsPruned =>
                          job.taskList[1].taskPlacementList = DummyPlacementList

\* an UPDATE or DELETE on one table whose filters contradict each other came
\* back with a Job that has no task, its target rewritten into a subquery
C11_Witness ==
    /\ ModifyJobReturned
    /\ AllShardsPruned
    /\ Len(restrictionContext) = 1
    /\ restrictionContext[1].restrictClauseList = <<0, 2>>
    /\ ~RequiresMasterEvaluation(originalQuery)
    /\ originalQuery.rtable[1].rtekind = RTE_SUBQUERY
    /\ multiPlan[1].workerJob[1].taskList = NIL

\* C11 as the specification states it: an UPDATE or DELETE whose relations
\* all prune to zero shards gets a Job with exactly one MODIFY task whose
\* placement list is the placeholder placement
C11_AsStated ==
    (ModifyJobReturned /\ AllShardsPruned) =>
        LET job == multiPlan[1].workerJob[1]
        IN  /\ Len(job.taskList) = 1
            /\ job.taskList[1].taskType = MODIFY_TASK
            /\ job.taskList[1].taskPlacementList = DummyPlacementList

\* a SELECT went through RouterJob and a plan without error came back
SelectPlanned ==
    /\ pc = "done"
    /\ originalQuery.commandType = CMD_SELECT
    /\ routerOut.ran
    /\ fatalError = ""
    /\ multiPlan # NULL
    /\ multiPlan[1].planningError = NULL

\* some table reference of the statement was rewritten into a subquery that
\* returns no rows
SomeReferencePruned ==
    \E i \in DOMAIN originalQuery.rtable : originalQuery.rtable[i].rtekind = RTE_SUBQUERY

\* C12, as amended: a SELECT accepted by the router (none of whose table
\* references requires UPDATE or DELETE permission) always gets a Job with
\* exactly one ROUTER_TASK that carries the resolved, non-empty placement
\* list, also when pruned relations were rewritten into subqueries that return
\* no rows; when every relation was pruned away the list is the placeholder
\* placement.
C12_ReadTask ==
    SelectPlanned =>
        /\ multiPlan[1].workerJob # NULL
        /\ LET job == multiPlan[1].workerJob[1]
           IN  /\ Len(job.taskList) = 1
               /\ job.taskList[1].taskType = ROUTER_TASK
               /\ job.taskList[1].taskPlacementList = routerOut.placementList
               /\ job.taskList[1].taskPlacementList # NIL
               /\ AllShardsPruned =>
                      job.taskList[1].taskPlacementList = DummyPlacementList

\* a SELECT whose only relation was pruned away and rewritten into a subquery
\* got a ROUTER_TASK with the placeholder placement
C12_Witness ==
    /\ SelectPlanned
    /\ AllShardsPruned
    /\ Len(originalQuery.rtable) = 1
    /\ SomeReferencePruned
    /\ Len(multiPlan[1].workerJob[1].taskList) = 1
    /\ multiPlan[1].workerJob[1].taskList[1].taskType = ROUTER_TASK
    /\ multiPlan[1].workerJob[1].taskList[1].taskPlacementList = DummyPlacementList

\* C12 as the specification states it: when a pruned relation is left as a
\* subquery-shaped table reference with zero rows the Job's task list is empty,
\* otherwise the Job has exactly one ROUTER_TASK with the resolved placements
C12_AsStated ==
    SelectPlanned =>
        /\ multiPlan[1].workerJob # NULL
        /\ LET job == multiPlan[1].workerJob[1]
           IN  IF SomeReferencePruned
               THEN job.taskList = NIL
               ELSE /\ Len(job.taskList) = 1
                    /\ job.taskList[1].taskType = ROUTER_TASK
                    /\ job.taskList[1].taskPlacementList = routerOut.placementList

\* the plan the call returned carries a Job
JobReturned ==
    /\ pc = "done"
    /\ multiPlan # NULL
    /\ multiPlan[1].workerJob # NULL

\* C13: every Job the router planner returns, for SELECT, INSERT, UPDATE and
\* DELETE alike and whatever the catalog holds, has a task list of length 0 or
\* 1; a write statement never gets more than one Task.
C13_AtMostOneTask ==
    JobReturned => Len(multiPlan[1].workerJob[1].taskList) <= 1

\* an INSERT into a table with three shards got a Job with one MODIFY task
C13_Witness ==
    /\ JobReturned
    /\ originalQuery.commandType = CMD_INSERT
    /\ Len(InsertTable.sortedShardIntervalArray) = 3
    /\ Len(multiPlan[1].workerJob[1].taskList) = 1
    /\ multiPlan[1].workerJob[1].taskList[1].taskType = MODIFY_TASK

-----------------------------------------------------------------------------
(* Properties of the INSERT path's failures, checked under SpecPlanner *)

\* the literal the INSERT gives the partition column
InsertValue == InsertPartitionEntries[1].expr.constvalue

\* the candidate shards the lookups return for the INSERT's literal
InsertCandidates ==
    IF InsertTable.partitionMethod \in {DISTRIBUTE_BY_HASH, DISTRIBUTE_BY_RANGE}
    THEN FindShardInterval(InsertValue, InsertTable)
    ELSE PruneShards(InsertTable.relationId, 1, <<InsertValue>>)

InsertPartitionColumnName ==
    ColumnNameToColumn(InsertTable.relationId, InsertTable.partitionAttno)

NoShardHint ==
    "Make sure you have created a shard which can receive this partition column value."

MultipleShardsHint ==
    "Make sure the value for partition column \"" \o InsertPartitionColumnName
        \o "\" falls into a single shard."

\* the call returned a plan that carries the given DeferredError and no Job
RejectedWith(message, hint) ==
    /\ fatalError = ""
    /\ multiPlan # NULL
    /\ multiPlan[1].planningError = DeferredError(message, "", hint)
    /\ multiPlan[1].workerJob = NULL

\* C14, as amended: for an INSERT of a non-null constant into a table that
\* has at least one shard, zero candidate shards are rejected with the
\* DeferredError 'cannot run INSERT command which targets no shards', whose
\* hint does not name the partition column, and more than one candidate with
\* 'cannot run INSERT command which targets multiple shards', whose hint names
\* the partition column; in both cases the plan carries no Job and no Task.
C14_InsertShardCount ==
    (InsertPlanned /\ InsertsConstant /\ InsertTable.sortedShardIntervalArray # <<>>) =>
        /\ Len(InsertCandidates) = 0 =>
               RejectedWith("cannot run INSERT command which targets no shards",
                            NoShardHint)
        /\ Len(InsertCandidates) > 1 =>
               RejectedWith("cannot run INSERT command which targets multiple shards",
                            MultipleShardsHint)

\* an INSERT of a value that no shard of a range table with two shards holds
\* was rejected for targeting no shards
C14_Witness ==
    /\ InsertPlanned
    /\ InsertsConstant
    /\ InsertTable.partitionMethod = DISTRIBUTE_BY_RANGE
    /\ Len(InsertTable.sortedShardIntervalArray) = 2
    /\ Len(InsertCandidates) = 0
    /\ RejectedWith("cannot run INSERT command which targets no shards", NoShardHint)

\* C14 as the specification states it: whenever the candidate shards of a
\* constant non-null partition value are zero or more than one, the INSERT is
\* rejected with a DeferredError whose hint names the partition column
C14_AsStated ==
    (InsertPlanned /\ InsertsConstant /\ Len(InsertCandidates) # 1) =>
        \E count \in {"no", "multiple"} :
            RejectedWith("cannot run INSERT command which targets " \o count \o " shards",
                         MultipleShardsHint)

\* C15, as amended: an INSERT of a literal that matches more than one
\* candidate shard does not abort; it is reported as the recoverable
\* DeferredError 'cannot run INSERT command which targets multiple shards' in
\* the returned plan.
C15_MultipleShardsDeferred ==
    (InsertPlanned /\ InsertsConstant /\ Len(InsertCandidates) > 1) =>
        /\ fatalError = ""
        /\ multiPlan # NULL
        /\ multiPlan[1].planningError # NULL
        /\ multiPlan[1].planningError[1].message =
               "cannot run INSERT command which targets multiple shards"

\* an INSERT of a value held by both shards of an append partitioned table
\* came back with the DeferredError
C15_Witness ==
    /\ InsertPlanned
    /\ InsertsConstant
    /\ InsertTable.partitionMethod = DISTRIBUTE_BY_APPEND
    /\ Len(InsertCandidates) = 2
    /\ fatalError = ""
    /\ multiPlan # NULL
    /\ multiPlan[1].planningError # NULL

\* C15 as the specification states it: a literal that matches multiple
\* candidate shards aborts planning and is never reported as a DeferredError
C15_AsStated ==
    (InsertPlanned /\ InsertsConstant /\ Len(InsertCandidates) > 1) =>
        /\ fatalError # ""
        /\ multiPlan = NULL

\* the tables the statement references
ReferencedTables ==
    IF originalQuery.commandType = CMD_INSERT
    THEN {ExtractFirstDistributedTableId(originalQuery)}
    ELSE {restrictionContext[i].relationId : i \in DOMAIN restrictionContext}

HasNoShards(relationId) ==
    DistributedTableCacheEntry(relationId).sortedShardIntervalArray = <<>>

\* the statement passed the checks that precede pruning and was planned
PlannedPastValidator ==
    /\ pc = "done"
    /\ IF originalQuery.commandType = CMD_INSERT THEN InsertPlanned ELSE routerOut.ran

\* the INSERT's shard can be looked up at planning time: the table is a
\* reference table or the partition column is given a constant
InsertPrunable ==
    \/ InsertTable.partitionMethod = DISTRIBUTE_BY_NONE
    \/ /\ InsertPartitionEntries # <<>>
       /\ InsertPartitionEntries[1].expr.tag = "Const"

NoShardsError == "could not find any shards"

\* C16, as amended: an INSERT that passes the validator, whose shard can be
\* looked up at planning time and whose table has distribution metadata but
\* no shards aborts with the fatal error 'could not find any shards' and
\* yields no plan.  A SELECT, UPDATE or DELETE never aborts with that error:
\* a referenced table without shards counts as pruned to zero shards, and
\* when no referenced table has a shard and a worker is active, planning
\* returns a Job without error.
C16_NoShards ==
    PlannedPastValidator =>
        /\ (/\ originalQuery.commandType = CMD_INSERT
            /\ HasNoShards(InsertTable.relationId)
            /\ InsertPrunable)
           => /\ fatalError = NoShardsError
              /\ multiPlan = NULL
        /\ originalQuery.commandType # CMD_INSERT =>
               /\ fatalError # NoShardsError
               /\ \A i \in DOMAIN restrictionContext :
                      (/\ HasNoShards(restrictionContext[i].relationId)
                       /\ routerOut.planningError = NULL)
                      => PrunedShardIntervalList(i) = NIL
               /\ ((\A relationId \in ReferencedTables : HasNoShards(relationId))
                   /\ ActivePrimaryNodeList # NIL)
                  => /\ fatalError = ""
                     /\ routerOut.planningError = NULL
                     /\ JobReturned

\* an INSERT of a constant into a hash partitioned table without shards
\* aborted with 'could not find any shards'
C16_Witness ==
    /\ PlannedPastValidator
    /\ originalQuery.commandType = CMD_INSERT
    /\ InsertTable.partitionMethod = DISTRIBUTE_BY_HASH
    /\ HasNoShards(InsertTable.relationId)
    /\ InsertsConstant
    /\ fatalError = NoShardsError
    /\ multiPlan = NULL

\* C16 as the specification states it: planning a SELECT, UPDATE, DELETE or
\* INSERT that references a table without shards aborts with 'could not find
\* any shards' and yields neither a Job nor a DeferredError
C16_AsStated ==
    (/\ PlannedPastValidator
     /\ \E relationId \in ReferencedTables : HasNoShards(relationId))
    => /\ fatalError = NoShardsError
       /\ multiPlan = NULL

\* planning aborted with an ereport(ERROR): no plan and no Job came back
AbortedFatally ==
    /\ fatalError # ""
    /\ multiPlan = NULL

\* C17: an INSERT that passes the validator aborts with a fatal error, and
\* yields no plan, no Job and no DeferredError, whenever its target is a
\* reference table whose shard count is not 1, or its partition column is
\* given a NULL constant, or its target list has no entry for the partition
\* column; in the last case the abort is 'cannot perform an INSERT without a
\* partition column value' and no deferred-pruning Job is built.
C17_InsertAborts ==
    InsertPlanned =>
        /\ (/\ InsertTable.partitionMethod = DISTRIBUTE_BY_NONE
            /\ Len(InsertTable.sortedShardIntervalArray) # 1)
           => AbortedFatally
        /\ (/\ InsertTable.partitionMethod # DISTRIBUTE_BY_NONE
            /\ InsertPartitionEntries # <<>>
            /\ InsertPartitionEntries[1].expr.tag = "Const"
            /\ InsertPartitionEntries[1].expr.constisnull)
           => AbortedFatally
        /\ (/\ InsertTable.partitionMethod # DISTRIBUTE_BY_NONE
            /\ InsertPartitionEntries = <<>>)
           => /\ AbortedFatally
              /\ fatalError = "cannot perform an INSERT without a partition column value"

\* an INSERT of NULL into the partition column of a table with shards aborted
C17_Witness ==
    /\ InsertPlanned
    /\ InsertTable.partitionMethod = DISTRIBUTE_BY_RANGE
    /\ InsertTable.sortedShardIntervalArray # <<>>
    /\ InsertPartitionEntries # <<>>
    /\ InsertPartitionEntries[1].expr = NullConst
    /\ fatalError = "cannot perform an INSERT with NULL in the partition column"
    /\ multiPlan = NULL

-----------------------------------------------------------------------------
(* Properties of the planning calls' outcomes, checked under SpecPlanner *)

\* the planning call returned without an ereport(ERROR)
ReturnedNormally ==
    /\ pc = "done"
    /\ fatalError = ""

\* the returned plan carries a Job and no error
JobOutcome ==
    /\ multiPlan # NULL
    /\ multiPlan[1].workerJob # NULL
    /\ multiPlan[1].planningError = NULL

\* the returned plan carries a DeferredError and no Job
ErrorOutcome ==
    /\ multiPlan # NULL
    /\ multiPlan[1].workerJob = NULL
    /\ multiPlan[1].planningError # NULL

\* C18, as amended: a planning call for an INSERT, UPDATE or DELETE that
\* does not abort returns a plan with either a Job and no error or a
\* DeferredError and no Job, never both and never neither.  A planning call
\* for a SELECT that does not abort returns such a plan too, or returns no
\* plan at all: a SELECT that is not routable, or that the filter-based path
\* rejects, yields neither a Job nor an error for the caller.
C18_Outcomes ==
    ReturnedNormally =>
        /\ multiPlan # NULL => (JobOutcome \/ ErrorOutcome)
        /\ ~(JobOutcome /\ ErrorOutcome)
        /\ originalQuery.commandType # CMD_SELECT => multiPlan # NULL
        /\ multiPlan = NULL =>
               \/ ~routerOut.ran
               \/ routerOut.planningError # NULL

\* an UPDATE that targets two shards came back with the error and no Job
C18_Witness ==
    /\ ReturnedNormally
    /\ originalQuery.commandType = CMD_UPDATE
    /\ routerOut.ran
    /\ ErrorOutcome
    /\ multiPlan[1].planningError = routerOut.planningError

\* C18 as the specification states it: every planning call that does not
\* abort ends with a Job and no error, or with no Job and a DeferredError
C18_AsStated ==
    ReturnedNormally => (JobOutcome \/ ErrorOutcome)

\* the planning call that ends in this step ends with a DeferredError (in the
\* returned plan, or reported by the filter-based path) or with an
\* ereport(ERROR)
EndsWithError ==
    /\ pc = "start"
    /\ pc' = "done"
    /\ \/ fatalError' # ""
       \/ routerOut'.planningError # NULL
       \/ multiPlan' # NULL /\ multiPlan'[1].planningError # NULL

\* C19 as the specification states it: whenever planning ends with a
\* DeferredError or a fatal error, the statement's table references are as
\* they were before the call; they are rewritten to shards only on success
C19_AsStated ==
    [][EndsWithError => originalQuery'.rtable = originalQuery.rtable]_vars

\* an INSERT, UPDATE or DELETE came back with a Job that has a Task
WriteTaskReturned ==
    /\ JobReturned
    /\ originalQuery.commandType \in {CMD_INSERT, CMD_UPDATE, CMD_DELETE}
    /\ multiPlan[1].workerJob[1].taskList # NIL

WriteTask == multiPlan[1].workerJob[1].taskList[1]

\* C20, as amended: the Task of an UPDATE or DELETE carries the non-empty
\* placement list that the placement resolution of PlanRouterQuery returned,
\* made after pruning (the placements of the remaining shards were looked up
\* when a shard remained); the Task of an INSERT carries an empty placement
\* list and a valid anchor shard only: no placement is looked up while an
\* INSERT is planned.
C20_WriteTaskPlacements ==
    WriteTaskReturned =>
        IF originalQuery.commandType = CMD_INSERT
        THEN /\ WriteTask.taskPlacementList = NIL
             /\ WriteTask.anchorShardId # INVALID_SHARD_ID
             /\ placementLog = <<>>
        ELSE /\ routerOut.ran
             /\ WriteTask.taskPlacementList # NIL
             /\ WriteTask.taskPlacementList = routerOut.placementList
             /\ ShardedRefs # {} =>
                    /\ placementLog # <<>>
                    /\ NodesOf(WriteTask.taskPlacementList) = CommonNodes

\* a DELETE over two table references that keep a shard each got a Task with
\* the placements common to both shards
C20_Witness ==
    /\ WriteTaskReturned
    /\ originalQuery.commandType = CMD_DELETE
    /\ Cardinality(ShardedRefs) = 2
    /\ Len(placementLog) = 2
    /\ WriteTask.taskPlacementList # NIL
    /\ NodesOf(WriteTask.taskPlacementList) = CommonNodes

\* C20 as the specification states it: the Task of every INSERT, UPDATE or
\* DELETE carries a non-empty candidate placement list
C20_AsStated ==
    WriteTaskReturned => WriteTask.taskPlacementList # NIL

-----------------------------------------------------------------------------
(* Properties of the analyzer and of the validator, checked under           *)
(* SpecValidate                                                             *)

\* the calls of the analyzer made so far
AnalyzerCalls ==
    {i \in DOMAIN callResult : callResult[i].call = "MasterIrreducibleExpression"}

\* the analyzer calls that started with both of the caller's flags false
FreshAnalyzerCalls ==
    {i \in AnalyzerCalls :
        ~callResult[i].hasVarArgument /\ ~callResult[i].hasBadCoalesce}

\* the calls of the validator made so far
ValidatorCalls ==
    {i \in DOMAIN callResult : callResult[i].call = "ModifyQuerySupported"}

-----------------------------------------------------------------------------
(* Properties of the Tasks of the filter-based path, checked under           *)
(* SpecPlanner                                                              *)

\* a Job with a Task came out of RouterJob
RouterTaskReturned ==
    /\ JobReturned
    /\ routerOut.ran
    /\ multiPlan[1].workerJob[1].taskList # NIL

RouterTask == multiPlan[1].workerJob[1].taskList[1]

\* the relation-to-shard mapping of the Task has an entry for table reference i
MappedRef(i) ==
    \E k \in DOMAIN RouterTask.relationShardList :
        RouterTask.relationShardList[k].relationId = restrictionContext[i].relationId

\* C22: in the Task of an accepted SELECT, UPDATE or DELETE the
\* relation-to-shard mapping gives no relation two different shards, has for
\* every table reference that kept a shard an entry with that shard, and has
\* no other entries; a table reference whose shards were all pruned away has
\* no entry of its own
C22_RelationShardMapping ==
    RouterTaskReturned =>
        LET mapping == RouterTask.relationShardList
        IN  /\ \A a \in DOMAIN mapping, b \in DOMAIN mapping :
                   mapping[a].relationId = mapping[b].relationId
                       => mapping[a].shardId = mapping[b].shardId
            /\ \A i \in DOMAIN restrictionContext :
                   PrunedShardIntervalList(i) # NIL =>
                       \E k \in DOMAIN mapping :
                           /\ mapping[k].relationId = restrictionContext[i].relationId
                           /\ mapping[k].shardId = PrunedShardIntervalList(i)[1].shardId
            /\ \A k \in DOMAIN mapping :
                   \E i \in DOMAIN restrictionContext :
                       /\ PrunedShardIntervalList(i) # NIL
                       /\ mapping[k].relationId = restrictionContext[i].relationId
            /\ Len(mapping) =
                   Cardinality({i \in DOMAIN restrictionContext :
                                   PrunedShardIntervalList(i) # NIL})

\* a Task over two tables of which one kept a shard and the other none
C22_Witness ==
    /\ RouterTaskReturned
    /\ \E i, j \in DOMAIN restrictionContext :
           /\ restrictionContext[i].relationId # restrictionContext[j].relationId
           /\ PrunedShardIntervalList(i) # NIL
           /\ PrunedShardIntervalList(j) = NIL
           /\ MappedRef(i)
           /\ ~MappedRef(j)

\* C22 as the specification states it: every base relation has an entry
C22_AsStated ==
    RouterTaskReturned =>
        /\ \A i \in DOMAIN restrictionContext : MappedRef(i)
        /\ \A a \in DOMAIN RouterTask.relationShardList,
              b \in DOMAIN RouterTask.relationShardList :
               RouterTask.relationShardList[a].relationId
                   = RouterTask.relationShardList[b].relationId
                   => RouterTask.relationShardList[a].shardId
                          = RouterTask.relationShardList[b].shardId

-----------------------------------------------------------------------------
(* The rejection rules of the validator *)

RejectionRules ==
    {"subselect", "cte", "view", "reference", "tablecount", "values",
     "volatile", "irreducible", "partition"}

\* the range table entries of the statement that are relations
BaseRelations(queryTree) ==
    {i \in DOMAIN queryTree.rtable : queryTree.rtable[i].rtekind = RTE_RELATION}

\* the SET entries of an UPDATE that the target list loop looks at
SetEntries(queryTree) ==
    IF queryTree.commandType # CMD_UPDATE THEN {}
    ELSE {k \in DOMAIN queryTree.targetList : ~queryTree.targetList[k].resjunk}

\* the DO UPDATE SET entries of an INSERT ... ON CONFLICT
ConflictSetEntries(queryTree) ==
    IF queryTree.commandType = CMD_INSERT /\ queryTree.onConflict # NULL
    THEN queryTree.onConflict[1].onConflictSet ELSE NIL

\* the arbiter and filter predicates of an INSERT ... ON CONFLICT
ConflictPredicates(queryTree) ==
    IF queryTree.commandType = CMD_INSERT /\ queryTree.onConflict # NULL
    THEN queryTree.onConflict[1].arbiterWhere \o queryTree.onConflict[1].onConflictWhere
    ELSE NIL

\* the partition column of the statement's first distributed table, or NULL
ValidatedPartitionColumn(queryTree) ==
    PartitionColumn(ExtractFirstDistributedTableId(queryTree), 1)

IsPartitionEntry(queryTree, entry) ==
    /\ ValidatedPartitionColumn(queryTree) # NULL
    /\ entry.resno = ValidatedPartitionColumn(queryTree)[1].varattno

\* a function of the stated classes in RETURNING, in a DO UPDATE SET entry
\* that is neither a column nor an entry of the partition column, or in the
\* predicates of ON CONFLICT; Unsafe is contain_mutable_functions for the
\* rule of the code, contain_volatile_functions for the rule as stated
UnsafeElsewhere(queryTree, Unsafe(_)) ==
    \/ Unsafe(ListNode(queryTree.returningList))
    \/ \E k \in DOMAIN ConflictSetEntries(queryTree) :
           /\ ~IsPartitionEntry(queryTree, ConflictSetEntries(queryTree)[k])
           /\ ConflictSetEntries(queryTree)[k].expr.tag # "Var"
           /\ Unsafe(ConflictSetEntries(queryTree)[k].expr)
    \/ Unsafe(ListNode(ConflictPredicates(queryTree)))

\* whether the rule applies to the statement in the given context, as the
\* code decides it
RuleApplies(rule, queryTree, multiShardQuery) ==
    CASE rule = "subselect" ->
             /\ \/ queryTree.hasSubLinks
                \/ \E i \in DOMAIN queryTree.rtable :
                       queryTree.rtable[i].rtekind \notin {RTE_RELATION, RTE_VALUES}
             /\ ~UpdateOrDeleteQuery(queryTree) \/ multiShardQuery
      [] rule = "cte" -> queryTree.cteList # NIL
      [] rule = "view" ->
             \E i \in BaseRelations(queryTree) :
                 queryTree.rtable[i].relkind = RELKIND_VIEW
      [] rule = "reference" ->
             /\ ~isCoordinator
             /\ \E i \in BaseRelations(queryTree) :
                    PartitionMethod(queryTree.rtable[i].relid) = DISTRIBUTE_BY_NONE
      [] rule = "tablecount" ->
             /\ queryTree.commandType # CMD_INSERT
             /\ Cardinality(BaseRelations(queryTree)) # 1
             /\ ~UpdateOrDeleteQuery(queryTree) \/ multiShardQuery
      [] rule = "values" ->
             \E i \in DOMAIN queryTree.rtable :
                 queryTree.rtable[i].rtekind = RTE_VALUES
      [] rule = "volatile" ->
             \/ \E k \in SetEntries(queryTree) :
                    contain_volatile_functions(queryTree.targetList[k].expr)
             \/ contain_volatile_functions(ListNode(queryTree.jointree.quals))
             \/ UnsafeElsewhere(queryTree, contain_mutable_functions)
      [] rule = "irreducible" ->
             \/ \E k \in SetEntries(queryTree) :
                    /\ ~contain_volatile_functions(queryTree.targetList[k].expr)
                    /\ MasterIrreducibleExpression(<<queryTree.targetList[k].expr>>,
                                                   FALSE, FALSE).result
             \/ /\ queryTree.jointree.quals # NIL
                /\ ~contain_volatile_functions(ListNode(queryTree.jointree.quals))
                /\ MasterIrreducibleExpression(<<ListNode(queryTree.jointree.quals)>>,
                                               FALSE, FALSE).result
      [] rule = "partition" ->
             \/ \E k \in SetEntries(queryTree) :
                    /\ IsPartitionEntry(queryTree, queryTree.targetList[k])
                    /\ TargetEntryChangesValue(queryTree.targetList[k],
                                               ValidatedPartitionColumn(queryTree)[1],
                                               queryTree.jointree)
             \/ \E k \in DOMAIN ConflictSetEntries(queryTree) :
                    /\ IsPartitionEntry(queryTree, ConflictSetEntries(queryTree)[k])
                    /\ ~(/\ ConflictSetEntries(queryTree)[k].expr.tag = "Var"
                         /\ ConflictSetEntries(queryTree)[k].expr.varattno
                                = ValidatedPartitionColumn(queryTree)[1].varattno)

\* the rules as the specification words them: the reference table is the
\* modified one, and the functions the volatile rule finds are volatile
RuleAppliesAsStated(rule, queryTree, multiShardQuery) ==
    CASE rule = "reference" ->
             /\ ~isCoordinator
             /\ queryTree.rtable[1].rtekind = RTE_RELATION
             /\ PartitionMethod(queryTree.rtable[1].relid) = DISTRIBUTE_BY_NONE
      [] rule = "volatile" ->
             \/ \E k \in SetEntries(queryTree) :
                    contain_volatile_functions(queryTree.targetList[k].expr)
             \/ contain_volatile_functions(ListNode(queryTree.jointree.quals))
             \/ UnsafeElsewhere(queryTree, contain_volatile_functions)
      [] OTHER -> RuleApplies(rule, queryTree, multiShardQuery)

\* the errors with which the validator rejects for the rule
RuleErrors(rule) ==
    CASE rule = "subselect" ->
             PlanningModificationsError(
                 "Subqueries are not supported in distributed modifications.")
             \o PlanningModificationsError(
                 "Joins are not supported in distributed modifications.")
             \o PlanningModificationsError(
                 "Functions must not appear in the FROM clause of a distributed modifications.")
      [] rule = "cte" ->
             DeferredError("common table expressions are not supported in distributed modifications",
                           "", "")
      [] rule = "view" ->
             DeferredError("cannot modify views over distributed tables", "", "")
      [] rule = "reference" ->
             PlanningModificationError(
                 "Modifications to reference tables are supported only from the coordinator.")
      [] rule = "tablecount" ->
             PlanningModificationError(
                 "Joins are not supported in distributed modifications.")
      [] rule = "values" ->
             PlanningModificationError(
                 "Multi-row INSERTs to distributed tables are not supported.")
      [] rule = "volatile" ->
             DeferredError("functions used in UPDATE queries on distributed tables must not be VOLATILE",
                           "", "")
             \o DeferredError("functions used in the WHERE clause of modification queries on distributed tables must not be VOLATILE",
                              "", "")
             \o DeferredError("non-IMMUTABLE functions are not allowed in the RETURNING clause",
                              "", "")
             \o DeferredError("functions used in the DO UPDATE SET clause of INSERTs on distributed tables must be marked IMMUTABLE",
                              "", "")
             \o DeferredError("functions used in the WHERE clause of the ON CONFLICT clause of INSERTs on distributed tables must be marked IMMUTABLE",
                              "", "")
      [] rule = "irreducible" ->
             DeferredError("STABLE functions used in UPDATE queries cannot be called with column references",
                           "", "")
             \o DeferredError("non-IMMUTABLE functions are not allowed in CASE or COALESCE statements",
                              "", "")
      [] rule = "partition" ->
             DeferredError("modifying the partition value of rows is not allowed", "", "")

\* the error is one of those the rule rejects with
ErrorOfRule(error, rule) ==
    \E k \in DOMAIN RuleErrors(rule) : error = <<RuleErrors(rule)[k]>>

\* no (message, detail) pair belongs to the errors of two rules
DistinctRuleErrors ==
    \A r1 \in RejectionRules, r2 \in RejectionRules :
        r1 # r2 =>
            \A k1 \in DOMAIN RuleErrors(r1), k2 \in DOMAIN RuleErrors(r2) :
                <<RuleErrors(r1)[k1].message, RuleErrors(r1)[k1].detail>>
                    # <<RuleErrors(r2)[k2].message, RuleErrors(r2)[k2].detail>>

\* the validator call made last, if the last call was one
LastValidatorCall == ValidatorCalls \cap {Len(callResult)}

-----------------------------------------------------------------------------
(* Stable functions over column references *)

\* a column reference occurs in the expression
RECURSIVE ContainsVar(_)
ContainsVar(node) ==
    \/ node.tag = "Var"
    \/ /\ HasChildren(node)
       /\ \E k \in DOMAIN node.args : ContainsVar(node.args[k])

\* a call of a stable function in the expression has a column reference
\* somewhere inside its arguments
RECURSIVE StableOverColumn(_)
StableOverColumn(node) ==
    /\ HasChildren(node)
    /\ \/ /\ IsFunctionNode(node)
          /\ node.volatile = PROVOLATILE_STABLE
          /\ \E k \in DOMAIN node.args : ContainsVar(node.args[k])
       \/ \E k \in DOMAIN node.args : StableOverColumn(node.args[k])

\* the statement has a SET entry or a WHERE clause that is free of volatile
\* functions and has a stable function over a column reference
HasStableOverColumn(queryTree) ==
    \/ \E k \in SetEntries(queryTree) :
           /\ ~contain_volatile_functions(queryTree.targetList[k].expr)
           /\ StableOverColumn(queryTree.targetList[k].expr)
    \/ /\ ~contain_volatile_functions(ListNode(queryTree.jointree.quals))
       /\ StableOverColumn(ListNode(queryTree.jointree.quals))

\* C24: for an expression free of volatile functions in which a stable
\* function has a column reference anywhere inside its arguments, the
\* analyzer (started with both flags false) sets hasColumnArgument and
\* returns true, and the validator rejects the statement whose SET entry or
\* WHERE clause holds the expression
C24_AsStated ==
    /\ \A i \in FreshAnalyzerCalls :
           /\ callResult[i].expression # NULL
           /\ StableOverColumn(callResult[i].expression[1])
           => /\ callResult[i].returned.result
              /\ callResult[i].returned.varArgument
    /\ \A i \in LastValidatorCall :
           HasStableOverColumn(originalQuery)
               => callResult[i].returned.error # NULL

\* C25: a call of the analyzer started with both flags false returns true
\* exactly when it leaves at least one of the two flags set; after any call
\* that returns true at least one flag is set, so the assertion that follows
\* each call in ModifyQuerySupported holds
C25_ResultIffFlag ==
    /\ \A i \in FreshAnalyzerCalls :
           callResult[i].returned.result
               <=> (callResult[i].returned.varArgument
                    \/ callResult[i].returned.badCoalesce)
    /\ \A i \in AnalyzerCalls :
           callResult[i].returned.result
               => (callResult[i].returned.varArgument
                   \/ callResult[i].returned.badCoalesce)

\* a call that returns true for a COALESCE over a stable function and sets
\* the conditional flag only
C25_Witness ==
    \E i \in FreshAnalyzerCalls :
        /\ callResult[i].expression
               = <<CoalesceExpr(<<FuncExpr(PROVOLATILE_STABLE, <<>>)>>)>>
        /\ callResult[i].returned.result
        /\ callResult[i].returned.badCoalesce
        /\ ~callResult[i].returned.varArgument

-----------------------------------------------------------------------------
(* Volatile functions in modifications *)

\* a volatile function occurs in a SET entry of an UPDATE, in the WHERE
\* clause, in the RETURNING list, in a DO UPDATE SET entry or in a predicate
\* of ON CONFLICT
VolatileInSensitivePosition(queryTree) ==
    \/ \E k \in SetEntries(queryTree) :
           contain_volatile_functions(queryTree.targetList[k].expr)
    \/ contain_volatile_functions(ListNode(queryTree.jointree.quals))
    \/ contain_volatile_functions(ListNode(queryTree.returningList))
    \/ \E k \in DOMAIN ConflictSetEntries(queryTree) :
           contain_volatile_functions(ConflictSetEntries(queryTree)[k].expr)
    \/ contain_volatile_functions(ListNode(ConflictPredicates(queryTree)))

\* the INSERT with constants for the values of its plain target list
WithConstantValues(queryTree) ==
    [queryTree EXCEPT !.targetList =
        [k \in DOMAIN queryTree.targetList |->
            [queryTree.targetList[k] EXCEPT !.expr = ConstExpr(0)]]]

\* C26: the validator rejects every INSERT, UPDATE or DELETE with a volatile
\* function in a SET entry of an UPDATE, in the WHERE clause, in RETURNING,
\* in a DO UPDATE SET entry or in a conflict arbiter or filter predicate; for
\* an INSERT it returns what it returns for the same INSERT with constants
\* in its plain target list, so a volatile function there causes no rejection
C26_VolatileRejected ==
    \A i \in LastValidatorCall :
        /\ VolatileInSensitivePosition(originalQuery)
               => callResult[i].returned.error # NULL
        /\ originalQuery.commandType = CMD_INSERT
               => callResult[i].returned.error
                      = ModifyQuerySupported(WithConstantValues(originalQuery),
                                             callResult[i].multiShardQuery)

\* an INSERT that assigns a volatile function and is accepted
C26_Witness ==
    /\ LastValidatorCall # {}
    /\ originalQuery.commandType = CMD_INSERT
    /\ \E k \in DOMAIN originalQuery.targetList :
           contain_volatile_functions(originalQuery.targetList[k].expr)
    /\ ~VolatileInSensitivePosition(originalQuery)
    /\ callResult[Len(callResult)].returned.error = NULL

-----------------------------------------------------------------------------
(* The table-count rule *)

TableCountError ==
    PlanningModificationError("Joins are not supported in distributed modifications.")

\* the base relations of the statement are its target and the excluded-row
\* pseudo-table of its ON CONFLICT clause
OnlyExcludedBesideTarget(queryTree) ==
    /\ queryTree.onConflict # NULL
    /\ Cardinality(BaseRelations(queryTree)) = 2
    /\ \A i \in BaseRelations(queryTree) :
           queryTree.rtable[i].relid = queryTree.rtable[1].relid

\* C27: an INSERT with more than one base relation is rejected unless the
\* extra one is the excluded-row pseudo-table of an UPSERT, which the
\* table-count rule lets pass; an UPDATE or DELETE with a number of base
\* relations other than one is rejected in the multi-shard context and is not
\* rejected by the table-count rule in the single-shard context; the rule
\* rejects nothing else
C27_TableCountRule ==
    \A i \in LastValidatorCall :
        LET error == callResult[i].returned.error
            multiShardQuery == callResult[i].multiShardQuery
            queryTableCount == Cardinality(BaseRelations(originalQuery))
        IN  /\ /\ originalQuery.commandType = CMD_INSERT
               /\ queryTableCount > 1
               => IF OnlyExcludedBesideTarget(originalQuery)
                  THEN error # TableCountError
                  ELSE error # NULL
            /\ /\ originalQuery.commandType \in {CMD_UPDATE, CMD_DELETE}
               /\ queryTableCount # 1
               => IF multiShardQuery THEN error # NULL
                  ELSE error # TableCountError
            /\ error = TableCountError
               => /\ originalQuery.commandType \in {CMD_UPDATE, CMD_DELETE}
                  /\ queryTableCount # 1
                  /\ multiShardQuery

\* an UPDATE over two base relations validated in the multi-shard context and
\* rejected by the table-count rule
C27_Witness ==
    /\ LastValidatorCall # {}
    /\ originalQuery.commandType = CMD_UPDATE
    /\ Cardinality(BaseRelations(originalQuery)) = 2
    /\ callResult[Len(callResult)].multiShardQuery
    /\ callResult[Len(callResult)].returned.error = TableCountError

-----------------------------------------------------------------------------
(* The sub-select rule *)

SubqueriesError ==
    DeferredError("cannot perform distributed planning for the given modifications",
                  "Subqueries are not supported in distributed modifications.", "")

\* the statement has a subquery in its FROM clause
HasSubqueryEntry(queryTree) ==
    \E k \in DOMAIN queryTree.rtable : queryTree.rtable[k].rtekind = RTE_SUBQUERY

\* the statement without its sub-selects and without the subqueries, joins
\* and functions of its FROM clause
WithoutSubselects(queryTree) ==
    [queryTree EXCEPT
        !.hasSubLinks = FALSE,
        !.rtable = SelectSeq(@, LAMBDA rte : rte.rtekind \in {RTE_RELATION, RTE_VALUES})]

\* C28: an INSERT with a sub-select in its expressions, and an UPDATE or
\* DELETE with one validated in the multi-shard context, is rejected with
\* 'Subqueries are not supported in distributed modifications'; with a
\* subquery in the FROM clause they are rejected as well; an UPDATE or DELETE
\* validated in the single-shard context gets what it gets without its
\* sub-selects and subquery, join and function table references
C28_SubselectRule ==
    \A i \in LastValidatorCall :
        LET error == callResult[i].returned.error
            multiShardQuery == callResult[i].multiShardQuery
            singleShardUpdateOrDelete ==
                /\ originalQuery.commandType \in {CMD_UPDATE, CMD_DELETE}
                /\ ~multiShardQuery
        IN  /\ originalQuery.hasSubLinks /\ ~singleShardUpdateOrDelete
                   => error = SubqueriesError
            /\ HasSubqueryEntry(originalQuery) /\ ~singleShardUpdateOrDelete
                   => error # NULL
            /\ singleShardUpdateOrDelete
                   => /\ ~ErrorOfRule(error, "subselect")
                      /\ error = ModifyQuerySupported(WithoutSubselects(originalQuery),
                                                      multiShardQuery)

\* an UPDATE with a sub-select and a subquery in its FROM clause that is
\* accepted in the single-shard context
C28_Witness ==
    /\ LastValidatorCall # {}
    /\ originalQuery.commandType = CMD_UPDATE
    /\ originalQuery.hasSubLinks
    /\ HasSubqueryEntry(originalQuery)
    /\ ~callResult[Len(callResult)].multiShardQuery
    /\ callResult[Len(callResult)].returned.error = NULL

-----------------------------------------------------------------------------
(* The rewrite of the table references, checked under SpecPlanner *)

\* a planning call in which the filter-based path ran and returned no error
RouterPathSucceeds ==
    /\ pc = "start"
    /\ pc' = "done"
    /\ routerOut'.ran
    /\ routerOut'.planningError = NULL

\* the shards the relation-to-shard mapping gives the relation
MappedShards(relationShardList, relid) ==
    {relationShardList[k].shardId :
        k \in {n \in DOMAIN relationShardList :
                  relationShardList[n].relationId = relid}}

\* the statement is an UPDATE or DELETE that is evaluated on the master first
PostponesRewrite(queryTree) ==
    /\ queryTree.commandType \in {CMD_UPDATE, CMD_DELETE}
    /\ queryTree.requiresMasterEvaluation

\* C29: when the filter-based path succeeds, every base-relation table
\* reference of the statement addresses afterwards the shard the mapping
\* gives its relation (a reference to a relation without a shard has become
\* an empty subquery) and nothing else of the statement has changed, unless
\* the statement is an UPDATE or DELETE that requires master evaluation,
\* which is left as it was; a SELECT is always rewritten
C29_RewriteOnSuccess ==
    [][RouterPathSucceeds =>
          IF PostponesRewrite(originalQuery)
          THEN originalQuery' = originalQuery
          ELSE /\ originalQuery' = [originalQuery EXCEPT !.rtable = originalQuery'.rtable]
               /\ Len(originalQuery'.rtable) = Len(originalQuery.rtable)
               /\ \A i \in DOMAIN originalQuery.rtable :
                      LET before == originalQuery.rtable[i]
                          after == originalQuery'.rtable[i]
                          shards == MappedShards(routerOut'.relationShardList,
                                                 before.relid)
                      IN  IF before.rtekind # RTE_RELATION THEN after = before
                          ELSE IF shards = {}
                          THEN after = [before EXCEPT !.rtekind = RTE_SUBQUERY]
                          ELSE /\ shards = {after.shardId}
                               /\ after = [before EXCEPT !.shardId = after.shardId]
    ]_vars

\* a SELECT all of whose shards were pruned, planned with a placeholder
\* placement and rewritten
C29_Witness ==
    /\ SelectPlanned
    /\ AllShardsPruned
    /\ routerOut.planningError = NULL
    /\ routerOut.placementList = DummyPlacementList
    /\ \A i \in DOMAIN originalQuery.rtable :
           originalQuery.rtable[i].rtekind = RTE_SUBQUERY

-----------------------------------------------------------------------------
(* Modifications of a reference table that read a distributed table,        *)
(* checked under SpecPlanner                                                *)

ReferenceModificationError ==
    "cannot perform select on a distributed table and modify a reference table"

\* the planned statement is an UPDATE or DELETE of a reference table that
\* reads a hash-, range- or append-distributed table through another table
\* reference
ModifiesReferenceReadsDistributed ==
    /\ pc = "done"
    /\ originalQuery.commandType \in {CMD_UPDATE, CMD_DELETE}
    /\ Len(originalQuery.rtable) > 1
    /\ PartitionMethod(originalQuery.rtable[1].relid) = DISTRIBUTE_BY_NONE
    /\ \E i \in 2..Len(originalQuery.rtable) :
           /\ originalQuery.rtable[i].relid # 0
           /\ PartitionMethod(originalQuery.rtable[i].relid) # DISTRIBUTE_BY_NONE

\* the reference to the modified table was rewritten to an empty subquery
ModifiedReferencePruned == originalQuery.rtable[1].rtekind = RTE_SUBQUERY

\* C30: an UPDATE or DELETE of a reference table that reads a distributed
\* table never comes back with a Task; when pruning and placement resolution
\* succeed, RouterJob aborts with 'cannot perform select on a distributed
\* table and modify a reference table' and no plan is returned, unless the
\* reference to the modified table was itself pruned and rewritten to an
\* empty subquery, in which case a Job without Tasks is returned
C30_ReferenceModification ==
    ModifiesReferenceReadsDistributed =>
        /\ ~(JobReturned /\ multiPlan[1].workerJob[1].taskList # NIL)
        /\ routerOut.ran /\ routerOut.planningError = NULL =>
               IF ModifiedReferencePruned
               THEN /\ fatalError = ""
                    /\ JobReturned
                    /\ multiPlan[1].workerJob[1].taskList = NIL
               ELSE /\ fatalError = ReferenceModificationError
                    /\ multiPlan = NULL

\* the abort for a statement whose two tables each keep one shard
C30_Witness ==
    /\ ModifiesReferenceReadsDistributed
    /\ routerOut.ran
    /\ routerOut.planningError = NULL
    /\ \A i \in DOMAIN restrictionContext : PrunedShardIntervalList(i) # NIL
    /\ fatalError = ReferenceModificationError
    /\ multiPlan = NULL

\* C30 as the specification states it: no Job is ever returned
C30_AsStated ==
    ModifiesReferenceReadsDistributed =>
        /\ ~JobReturned
        /\ routerOut.ran /\ routerOut.planningError = NULL =>
               fatalError = ReferenceModificationError

====
